---- MODULE Spec2Model ----
(***************************************************************************)
(* State-machine model of the orbiter-analytics traffic store:             *)
(*   src/src/db.ts      class TrafficDB (event log, cursor stream, reports) *)
(*   src/src/index.ts   backupDatabase / restoreDatabase around the store   *)
(* The SQLite file (or in-memory database) is the pair traffic/seq plus the *)
(* hasTable flag; the field this.db is the variable db.  Every await of the *)
(* source is a point where another handler may run, so a handler with       *)
(* several awaits that matter is split into one action per step.            *)
(***************************************************************************)
EXTENDS Integers, Sequences, FiniteSets, TLC

(* ------------------------------------------------------------------ *)
(* Values                                                               *)
(* ------------------------------------------------------------------ *)

\* SQL NULL; the driver binds a JavaScript undefined as NULL.
NULL == "<null>"

\* The constructor's default path and the path index.ts passes.
MemoryPath == ":memory:"
FilePath == "traffic.db"

\* Outcomes of an operation.
ErrNone == "ok"
NotInitialized == "Database not initialized"
HandleClosed == "SQLITE_MISUSE: Database is closed"
NoSuchTable == "SQLITE_ERROR: no such table: traffic"
NullDeref == "TypeError: Cannot read properties of null"
CloseBusy == "SQLITE_BUSY: unable to close due to unfinalized statements"
RestoreFailed == "Failed to retrieve database backup"
WriteFailed == "ENOSPC: no space left on device, write"

\* Program constants.
MsPerSecond == 1000
SecondsPerDay == 86400
DefaultBatchSize == 1000
LatestLimit == 100
TopReferrersLimit == 10

\* Bounds of the model.
MaxEvents == 2
MaxInFlight == 1
MaxStreamEvents == 3
MaxDailyEvents == 2
MaxBreakdownEvents == 4
MaxTicks == 4
MaxStatsEvents == 3
MaxReferrers == 12
MaxReportEvents == 2
MaxIngestEvents == 2
MaxLatestRows == 153
MaxCursorEvents == 2
MaxTestRecords == 2
MaxPlaceholderEvents == 3
NumWriters == 2

Min(a, b) == IF a < b THEN a ELSE b
Max(a, b) == IF a < b THEN b ELSE a

VARIABLES
  dbPath,     \* TrafficDB.dbPath
  db,         \* TrafficDB.db: "null", or the state of the handle it holds
  hasTable,   \* the database the handle is connected to has the traffic table
  traffic,    \* its rows, in rowid order
  seq,        \* its sqlite_sequence entry for traffic (AUTOINCREMENT)
  backup,     \* the file restoreDatabase downloads (files.files[0]), or <<>>
  initPc,     \* position of the initialize() in flight
  restorePc,  \* position of the restoreDatabase() in flight
  writers,    \* per caller of recordTraffic: the statement it has prepared
  streams,    \* per consumer: the queryTrafficStream generator it drives
  statsPc,    \* the getTrafficStats in flight between its two queries
  now,        \* the wall clock, ms since epoch
  res,        \* outcome of the operation that completed last
  assigned    \* history: per id given to an event so far, to how many (1, or
              \* 2 for more than one)

vars == <<dbPath, db, hasTable, traffic, seq, backup, initPc, restorePc,
          writers, streams, statsPc, now, res, assigned>>

Writers == 1..NumWriters
Streams == {1}

\* The outcome of an operation: which one, called with what (<<>> or <<arg>>),
\* the value of this.db it saw, its error (ErrNone when it resolved) and the
\* rows or records it returned.
Result(op, arg, handle, err, val) ==
  [op |-> op, arg |-> arg, handle |-> handle, err |-> err, val |-> val]

NoResult == Result("none", <<>>, "null", ErrNone, <<>>)

IdleWriter == [pc |-> "idle", handle |-> "current", rec |-> <<>>]

IdleStream ==
  [pc |-> "idle", eager |-> FALSE, siteId |-> NULL, startTime |-> 0,
   endTime |-> 0, batchSize |-> 0, lastId |-> 0, yielded |-> <<>>,
   fetches |-> 0, atStart |-> <<>>]

\* What a call on the driver handle this.db does before it touches any row.
DriverErr(handle, table) ==
  IF handle = "null" THEN NullDeref
  ELSE IF handle = "closed" THEN HandleClosed
  ELSE IF ~table THEN NoSuchTable
  ELSE ErrNone


(* ------------------------------------------------------------------ *)
(* The event store: initialize, recordTraffic, close                   *)
(* ------------------------------------------------------------------ *)

\* A TrafficRecord as a caller passes it; NULL stands for an omitted field,
\* and the optional timestamp is <<>> or <<ms>>.
Input(siteId, timestamp, path, referrer, country, ipAddress, requestType) ==
  [siteId |-> siteId, timestamp |-> timestamp, path |-> path,
   userAgent |-> NULL, ipAddress |-> ipAddress, country |-> country,
   city |-> NULL, referrer |-> referrer, requestType |-> requestType]

\* Parameter default of recordTraffic: timestamp = Date.now() when omitted.
DefaultTimestamp(rec, clock) ==
  [rec EXCEPT !.timestamp = IF rec.timestamp = <<>> THEN clock
                            ELSE rec.timestamp[1]]

MaxRowId(rows) ==
  IF Len(rows) = 0 THEN 0 ELSE rows[Len(rows)].id

\* AssignedId without the increment: the largest id again.
AssignedIdReused(rows, sequence) == Max(sequence, MaxRowId(rows))

\* INTEGER PRIMARY KEY AUTOINCREMENT: one more than the largest rowid the
\* table ever held (sqlite_sequence) and than the largest it holds now.
AssignedId(rows, sequence) == Max(sequence, MaxRowId(rows)) + 1

\* created_at INTEGER DEFAULT (unixepoch()): seconds, taken at the insert.
UnixEpoch(clock) == clock \div MsPerSecond

\* The history of the ids given, after one more event is given id.
Given(history, id) ==
  IF id \in DOMAIN history THEN [history EXCEPT ![id] = 2]
  ELSE [k \in DOMAIN history \cup {id} |->
          IF k = id THEN 1 ELSE history[k]]

\* The row the INSERT of recordTraffic stores.
InsertedRow(rec, id, clock) ==
  [id |-> id, site_id |-> rec.siteId, timestamp |-> rec.timestamp,
   path |-> rec.path, user_agent |-> rec.userAgent,
   ip_address |-> rec.ipAddress, country |-> rec.country, city |-> rec.city,
   referrer |-> rec.referrer, request_type |-> rec.requestType,
   created_at |-> UnixEpoch(clock)]

InFlight == {w \in Writers : writers[w].pc = "prepared"}

\* initialize(), first half: open() has been called and is awaited.
InitializeCall ==
  /\ initPc = "idle"
  /\ restorePc = "idle"
  /\ initPc' = "opening"
  /\ UNCHANGED <<dbPath, db, hasTable, traffic, seq, backup, restorePc,
                 writers, streams, statsPc, now, res, assigned>>

\* A statement prepared on the handle this.db held stays with that handle
\* when initialize() stores a new one in this.db.
Orphaned(w) ==
  IF w.pc = "prepared" /\ w.handle = "current"
  THEN [w EXCEPT !.handle = IF db = "open" THEN "leaked" ELSE "closed"]
  ELSE w

\* InitializeOpen as if every path named a new database.
InitializeOpenFresh ==
  /\ initPc = "opening"
  /\ initPc' = "schema"
  /\ db' = "open"
  /\ writers' = [w \in Writers |-> Orphaned(writers[w])]
  /\ traffic' = <<>>
  /\ seq' = 0
  /\ hasTable' = FALSE
  /\ UNCHANGED <<dbPath, backup, restorePc, streams, statsPc, now, res,
                 assigned>>

\* open() resolved: this.db = <new handle>; the schema exec is issued.  A
\* ":memory:" path names a new, empty database on every open.
InitializeOpen ==
  /\ initPc = "opening"
  /\ initPc' = "schema"
  /\ db' = "open"
  /\ writers' = [w \in Writers |-> Orphaned(writers[w])]
  /\ IF dbPath = MemoryPath
     THEN /\ traffic' = <<>>
          /\ seq' = 0
          /\ hasTable' = FALSE
     ELSE UNCHANGED <<traffic, seq, hasTable>>
  /\ UNCHANGED <<dbPath, backup, restorePc, streams, statsPc, now, res,
                 assigned>>

\* CREATE TABLE IF NOT EXISTS / CREATE INDEX IF NOT EXISTS resolved; the
\* initialize() promise resolves, and with it a restoreDatabase that awaited it.
InitializeSchema ==
  /\ initPc = "schema"
  /\ initPc' = "idle"
  /\ hasTable' = IF db = "open" THEN TRUE ELSE hasTable
  /\ LET err == IF db = "open" THEN ErrNone ELSE HandleClosed
         op == IF restorePc = "init" THEN "restoreDatabase" ELSE "initialize"
     IN res' = Result(op, <<>>, db, err, <<>>)
  /\ restorePc' = IF restorePc = "init" THEN "idle" ELSE restorePc
  /\ UNCHANGED <<dbPath, db, traffic, seq, backup, writers, streams, statsPc,
                 now, assigned>>

\* What close() can do to this.db: <<new state of the handle, error>>.  It skips
\* a null this.db; the driver rejects a close of a closed handle, and a close
\* while a statement of the handle is not finalized.
CloseOutcomes ==
  IF db = "null" THEN {<<"null", ErrNone>>}
  ELSE IF db = "closed" THEN {<<"closed", HandleClosed>>}
  ELSE {<<"closed", ErrNone>>} \cup
       (IF \E w \in InFlight : writers[w].handle = "current"
        THEN {<<"open", CloseBusy>>} ELSE {})

Close ==
  /\ \E o \in CloseOutcomes :
       /\ db' = o[1]
       /\ res' = Result("close", <<>>, db, o[2], <<>>)
  /\ UNCHANGED <<dbPath, hasTable, traffic, seq, backup, initPc, restorePc,
                 writers, streams, statsPc, now, assigned>>

\* recordTraffic up to its first await: the guard, then prepare().
RecordTrafficCall(w, rec) ==
  /\ writers[w].pc = "idle"
  /\ IF db = "null"
     THEN /\ res' = Result("recordTraffic", <<rec>>, db, NotInitialized, <<>>)
          /\ UNCHANGED writers
     ELSE IF DriverErr(db, hasTable) # ErrNone
     THEN /\ res' = Result("recordTraffic", <<rec>>, db,
                           DriverErr(db, hasTable), <<>>)
          /\ UNCHANGED writers
     ELSE /\ writers' = [writers EXCEPT ![w] =
               [pc |-> "prepared", handle |-> "current",
                rec |-> <<DefaultTimestamp(rec, now)>>]]
          /\ UNCHANGED res
  /\ UNCHANGED <<dbPath, db, hasTable, traffic, seq, backup, initPc,
                 restorePc, streams, statsPc, now, assigned>>

\* RecordTrafficRun as an upsert on the last rowid: the new row takes the
\* place of the row stored last.
RecordTrafficRunReplacing(w) ==
  /\ writers[w].pc = "prepared"
  /\ LET h == writers[w].handle
         err == IF h = "current" THEN DriverErr(db, hasTable)
                ELSE IF h = "closed" THEN HandleClosed
                ELSE ErrNone
         id == Max(1, MaxRowId(traffic))
         row == InsertedRow(writers[w].rec[1], id, now)
     IN /\ res' = Result("recordTraffic", writers[w].rec, db, err, <<>>)
        /\ IF err = ErrNone
           THEN /\ traffic' = IF Len(traffic) = 0 THEN <<row>>
                              ELSE [traffic EXCEPT ![Len(traffic)] = row]
                /\ seq' = id
                /\ assigned' = Given(assigned, id)
           ELSE UNCHANGED <<traffic, seq, assigned>>
  /\ writers' = [writers EXCEPT ![w] = IdleWriter]
  /\ UNCHANGED <<dbPath, db, hasTable, backup, initPc, restorePc, streams,
                 statsPc, now>>

\* stmt.run() and stmt.finalize(): the INSERT commits, or the handle the
\* statement belongs to has been closed meanwhile.  A statement of a leaked
\* handle still runs: on the same file, or on the in-memory database the
\* handle alone can reach.
RecordTrafficRun(w) ==
  /\ writers[w].pc = "prepared"
  /\ LET h == writers[w].handle
         err == IF h = "current" THEN DriverErr(db, hasTable)
                ELSE IF h = "closed" THEN HandleClosed
                ELSE ErrNone
         id == AssignedId(traffic, seq)
         lost == h = "leaked" /\ dbPath = MemoryPath
     IN /\ res' = Result("recordTraffic", writers[w].rec, db, err, <<>>)
        /\ IF err = ErrNone /\ ~lost
           THEN /\ traffic' = Append(traffic,
                                     InsertedRow(writers[w].rec[1], id, now))
                /\ seq' = id
                /\ assigned' = Given(assigned, id)
           ELSE UNCHANGED <<traffic, seq, assigned>>
  /\ writers' = [writers EXCEPT ![w] = IdleWriter]
  /\ UNCHANGED <<dbPath, db, hasTable, backup, initPc, restorePc, streams,
                 statsPc, now>>

(* ------------------------------------------------------------------ *)
(* The cursor stream: queryTrafficStream, queryTraffic                  *)
(* ------------------------------------------------------------------ *)

\* A TrafficQuery; the optional batchSize is <<>> or <<n>>.
Query(siteId, startTime, endTime, batchSize) ==
  [siteId |-> siteId, startTime |-> startTime, endTime |-> endTime,
   batchSize |-> batchSize]

\* InRange with the end of the window excluded.
InRangeEndExcluded(r, siteId, startTime, endTime) ==
  /\ r.site_id = siteId
  /\ r.timestamp >= startTime
  /\ r.timestamp < endTime

\* WHERE site_id = ? AND timestamp >= ? AND timestamp <= ?
InRange(r, siteId, startTime, endTime) ==
  /\ r.site_id = siteId
  /\ r.timestamp >= startTime
  /\ r.timestamp <= endTime

Matching(rows, siteId, startTime, endTime) ==
  SelectSeq(rows, LAMBDA r : InRange(r, siteId, startTime, endTime))

\* LIMIT n: a negative n is no limit.
Limit(rows, n) ==
  IF n < 0 THEN rows ELSE SubSeq(rows, 1, Min(n, Len(rows)))

\* Parameter default of queryTrafficStream: batchSize = 1000 when omitted.
BatchSizeOf(q) ==
  IF q.batchSize = <<>> THEN DefaultBatchSize ELSE q.batchSize[1]

\* FetchBatch with the cursor compared as id > lastId + 1: the row after the
\* cursor is skipped.
FetchBatchSkipping(rows, siteId, startTime, endTime, lastId, batchSize) ==
  Limit(SelectSeq(SelectSeq(rows, LAMBDA r : /\ r.site_id = siteId
                                            /\ r.timestamp >= startTime
                                            /\ r.timestamp <= endTime),
                  LAMBDA r : r.id > lastId + 1),
        batchSize)

\* FetchBatch with the cursor compared as id >= lastId: the row of the cursor
\* is fetched again.
FetchBatchRepeating(rows, siteId, startTime, endTime, lastId, batchSize) ==
  Limit(SelectSeq(SelectSeq(rows, LAMBDA r : /\ r.site_id = siteId
                                            /\ r.timestamp >= startTime
                                            /\ r.timestamp <= endTime),
                  LAMBDA r : r.id >= lastId),
        batchSize)

\* The SELECT of one batch: ... AND id > ? ORDER BY id ASC LIMIT ?
\* (traffic is kept in rowid order, which is id order).
FetchBatch(rows, siteId, startTime, endTime, lastId, batchSize) ==
  Limit(SelectSeq(Matching(rows, siteId, startTime, endTime),
                  LAMBDA r : r.id > lastId),
        batchSize)

StreamOp(st) == IF st.eager THEN "queryTraffic" ELSE "queryTrafficStream"

\* StreamStart with one cursor for all generators: a new generator goes on
\* from the largest lastId a running one has reached.
StreamStartShared(s, q, eager) ==
  /\ streams[s].pc = "idle"
  /\ IF db = "null"
     THEN /\ res' = Result(IF eager THEN "queryTraffic"
                           ELSE "queryTrafficStream",
                           <<q>>, db, NotInitialized, <<>>)
          /\ UNCHANGED streams
     ELSE /\ streams' = [streams EXCEPT ![s] =
               [pc |-> "active", eager |-> eager, siteId |-> q.siteId,
                startTime |-> q.startTime, endTime |-> q.endTime,
                batchSize |-> BatchSizeOf(q),
                lastId |->
                  CHOOSE m \in {streams[t].lastId : t \in DOMAIN streams} :
                    \A t \in DOMAIN streams : streams[t].lastId <= m,
                yielded |-> <<>>, fetches |-> 0,
                atStart |-> traffic]]
          /\ UNCHANGED res
  /\ UNCHANGED <<dbPath, db, hasTable, traffic, seq, backup, initPc,
                 restorePc, writers, statsPc, now, assigned>>

\* The generator's first next() up to its first await: the guard and
\* lastId = 0.  With eager, the consumer is queryTraffic's for-await loop.
StreamStart(s, q, eager) ==
  /\ streams[s].pc = "idle"
  /\ IF db = "null"
     THEN /\ res' = Result(IF eager THEN "queryTraffic"
                           ELSE "queryTrafficStream",
                           <<q>>, db, NotInitialized, <<>>)
          /\ UNCHANGED streams
     ELSE /\ streams' = [streams EXCEPT ![s] =
               [pc |-> "active", eager |-> eager, siteId |-> q.siteId,
                startTime |-> q.startTime, endTime |-> q.endTime,
                batchSize |-> BatchSizeOf(q), lastId |-> 0, yielded |-> <<>>,
                fetches |-> 0, atStart |-> traffic]]
          /\ UNCHANGED res
  /\ UNCHANGED <<dbPath, db, hasTable, traffic, seq, backup, initPc,
                 restorePc, writers, statsPc, now, assigned>>

\* StreamFetch with the failure of a fetch caught: the generator ends as on an
\* empty batch, and queryTraffic returns the list it has collected.
StreamFetchSwallowing(s) ==
  /\ streams[s].pc = "active"
  /\ LET st == streams[s]
         err == DriverErr(db, hasTable)
         batch == FetchBatch(traffic, st.siteId, st.startTime, st.endTime,
                             st.lastId, st.batchSize)
     IN IF err # ErrNone \/ Len(batch) = 0
        THEN /\ streams' = [streams EXCEPT ![s] = IdleStream]
             /\ res' = Result(StreamOp(st), <<st>>, db, ErrNone, st.yielded)
        ELSE /\ streams' = [streams EXCEPT
                  ![s].yielded = st.yielded \o batch,
                  ![s].lastId = batch[Len(batch)].id,
                  ![s].fetches = st.fetches + 1]
             /\ UNCHANGED res
  /\ UNCHANGED <<dbPath, db, hasTable, traffic, seq, backup, initPc,
                 restorePc, writers, statsPc, now, assigned>>

\* One turn of the while loop: prepare, all, finalize, then the for loop that
\* yields every record of the batch and moves lastId to its id.  An empty
\* batch ends the generator; a failed fetch throws out of it, and queryTraffic
\* then rejects without its partial list.  The outcome carries the generator's
\* last state, with the rows the table held when it started (atStart) and
\* the number of batches it has yielded (fetches).
StreamFetch(s) ==
  /\ streams[s].pc = "active"
  /\ LET st == streams[s]
         err == DriverErr(db, hasTable)
         batch == FetchBatch(traffic, st.siteId, st.startTime, st.endTime,
                             st.lastId, st.batchSize)
     IN IF err # ErrNone
        THEN /\ streams' = [streams EXCEPT ![s] = IdleStream]
             /\ res' = Result(StreamOp(st), <<st>>, db, err,
                              IF st.eager THEN <<>> ELSE st.yielded)
        ELSE IF Len(batch) = 0
        THEN /\ streams' = [streams EXCEPT ![s] = IdleStream]
             /\ res' = Result(StreamOp(st), <<st>>, db, ErrNone, st.yielded)
        ELSE /\ streams' = [streams EXCEPT
                  ![s].yielded = st.yielded \o batch,
                  ![s].lastId = batch[Len(batch)].id,
                  ![s].fetches = st.fetches + 1]
             /\ UNCHANGED res
  /\ UNCHANGED <<dbPath, db, hasTable, traffic, seq, backup, initPc,
                 restorePc, writers, statsPc, now, assigned>>

\* The consumer leaves its loop before the generator is done (break, or
\* return() on the iterator): the generator ends, and nothing is returned.
StreamAbandon(s) ==
  /\ streams[s].pc = "active"
  /\ streams' = [streams EXCEPT ![s] = IdleStream]
  /\ UNCHANGED <<dbPath, db, hasTable, traffic, seq, backup, initPc,
                 restorePc, writers, statsPc, now, res, assigned>>

(* ------------------------------------------------------------------ *)
(* index.ts: backupDatabase, restoreDatabase                            *)
(* ------------------------------------------------------------------ *)

\* fs.readFileSync("./traffic.db") and the upload.  A failure (no file yet,
\* the upload) is logged and swallowed.
BackupDatabase ==
  /\ dbPath = FilePath
  /\ \E uploaded \in BOOLEAN :
       backup' = IF uploaded /\ db # "null"
                 THEN <<[rows |-> traffic, seq |-> seq, hasTable |-> hasTable]>>
                 ELSE backup
  /\ res' = Result("backupDatabase", <<>>, db, ErrNone, <<>>)
  /\ UNCHANGED <<dbPath, db, hasTable, traffic, seq, initPc, restorePc,
                 writers, streams, statsPc, now, assigned>>

\* restoreDatabase is called: the listing and the download are awaited.
\* index.ts serves its routes once its top-level db.initialize() has resolved.
RestoreCall ==
  /\ dbPath = FilePath
  /\ db # "null"
  /\ initPc = "idle"
  /\ restorePc = "idle"
  /\ restorePc' = "download"
  /\ UNCHANGED <<dbPath, db, hasTable, traffic, seq, backup, initPc, writers,
                 streams, statsPc, now, res, assigned>>

\* The download resolved or failed.  On success db.close() is called and
\* awaited; a throw anywhere is logged and rethrown.
RestoreClose ==
  /\ restorePc = "download"
  /\ \E downloaded \in BOOLEAN :
       IF ~downloaded \/ backup = <<>>
       THEN /\ restorePc' = "idle"
            /\ res' = Result("restoreDatabase", <<>>, db, RestoreFailed, <<>>)
            /\ UNCHANGED db
       ELSE \E o \in CloseOutcomes :
              /\ db' = o[1]
              /\ IF o[2] = ErrNone
                 THEN /\ restorePc' = "closed"
                      /\ UNCHANGED res
                 ELSE /\ restorePc' = "idle"
                      /\ res' = Result("restoreDatabase", <<>>, db, o[2], <<>>)
  /\ UNCHANGED <<dbPath, hasTable, traffic, seq, backup, initPc, writers,
                 streams, statsPc, now, assigned>>

\* close() resolved: fs.writeFileSync("./traffic.db", buffer), then
\* db.initialize() is called and awaited.  When the write throws (no space,
\* no permission), the catch logs and rethrows, and this.db keeps the handle
\* that was closed.
RestoreWrite ==
  /\ restorePc = "closed"
  /\ initPc = "idle"
  /\ \E written \in BOOLEAN :
       IF written
       THEN /\ traffic' = backup[1].rows
            /\ seq' = backup[1].seq
            /\ hasTable' = backup[1].hasTable
            /\ restorePc' = "init"
            /\ initPc' = "opening"
            /\ UNCHANGED res
       ELSE /\ restorePc' = "idle"
            /\ res' = Result("restoreDatabase", <<>>, db, WriteFailed, <<>>)
            /\ UNCHANGED <<traffic, seq, hasTable, initPc>>
  /\ UNCHANGED <<dbPath, db, backup, writers, streams, statsPc, now, assigned>>

(* ------------------------------------------------------------------ *)
(* Reports                                                              *)
(* ------------------------------------------------------------------ *)

\* db.all / db.get on this.db: the driver's error, or one of the values the
\* statement may return.
DbAll(op, arg, values) ==
  IF DriverErr(db, hasTable) # ErrNone
  THEN res' = Result(op, arg, db, DriverErr(db, hasTable), <<>>)
  ELSE \E v \in values : res' = Result(op, arg, db, ErrNone, v)

\* SQLite date(secs, 'unixepoch'): the civil date 'YYYY-MM-DD' of a number of
\* seconds since the epoch, as <<year, month, day>> (a text comparison of two
\* such dates is the lexicographic one).
CivilFromDays(days) ==
  LET z == days + 719468
      era == z \div 146097
      doe == z - era * 146097
      yoe == (doe - doe \div 1460 + doe \div 36524 - doe \div 146096) \div 365
      doy == doe - (365 * yoe + yoe \div 4 - yoe \div 100)
      mp == (5 * doy + 2) \div 153
      d == doy - (153 * mp + 2) \div 5 + 1
      m == IF mp < 10 THEN mp + 3 ELSE mp - 9
      y == yoe + era * 400 + (IF m <= 2 THEN 1 ELSE 0)
  IN <<y, m, d>>

DaysFromCivil(date) ==
  LET y == IF date[2] <= 2 THEN date[1] - 1 ELSE date[1]
      era == y \div 400
      yoe == y - era * 400
      mp == IF date[2] > 2 THEN date[2] - 3 ELSE date[2] + 9
      doy == (153 * mp + 2) \div 5 + date[3] - 1
      doe == yoe * 365 + yoe \div 4 - yoe \div 100 + doy
  IN era * 146097 + doe - 719468

DateOf(secs) == CivilFromDays(secs \div SecondsPerDay)

\* date(date, '+1 day')
PlusOneDay(date) == CivilFromDays(DaysFromCivil(date) + 1)

\* date < date as texts 'YYYY-MM-DD'
DateLess(a, b) ==
  \/ a[1] < b[1]
  \/ a[1] = b[1] /\ a[2] < b[2]
  \/ a[1] = b[1] /\ a[2] = b[2] /\ a[3] < b[3]

\* DatesFrom with the recursion going on while date <= the end date.
RECURSIVE DatesFromInclusive(_, _)
DatesFromInclusive(date, last) ==
  IF DateLess(date, last) \/ date = last
  THEN <<date>> \o DatesFromInclusive(PlusOneDay(date), last)
  ELSE <<date>>

\* WITH RECURSIVE dates(date): the first date, then date + 1 day while the
\* row just produced is before the end date.
RECURSIVE DatesFrom(_, _)
DatesFrom(date, last) ==
  IF DateLess(date, last)
  THEN <<date>> \o DatesFrom(PlusOneDay(date), last)
  ELSE <<date>>

Dates(startTime, endTime) ==
  DatesFrom(DateOf(startTime \div MsPerSecond), DateOf(endTime \div MsPerSecond))

\* GROUP BY dates.date ORDER BY dates.date ASC over the rows of dates.
RECURSIVE SortedDates(_)
SortedDates(S) ==
  IF S = {} THEN <<>>
  ELSE LET first == CHOOSE d \in S : \A e \in S : ~DateLess(e, d)
       IN <<first>> \o SortedDates(S \ {first})

Range(f) == {f[i] : i \in DOMAIN f}

\* PathGiven taking every path, omitted or empty, as one to filter by.
PathGivenAlways(path) == TRUE

\* The path filter is part of the join only for a truthy path.
PathGiven(path) == path # NULL /\ path # ""

\* JoinedCount joining on the day of the event's timestamp.
JoinedCountByTimestamp(rows, siteId, path, date) ==
  Cardinality({i \in DOMAIN rows :
                 /\ rows[i].site_id = siteId
                 /\ DateOf(rows[i].timestamp \div MsPerSecond) = date
                 /\ (PathGiven(path) => rows[i].path = path)})

\* LEFT JOIN traffic ON site_id = ? AND date(created_at, 'unixepoch') =
\* dates.date [AND path = ?], COUNT(traffic.id) per date.
JoinedCount(rows, siteId, path, date) ==
  Cardinality({i \in DOMAIN rows :
                 /\ rows[i].site_id = siteId
                 /\ DateOf(rows[i].created_at) = date
                 /\ (PathGiven(path) => rows[i].path = path)})

\* DailyViews with an inner join: the days without an event are left out.
DailyViewsJoined(rows, siteId, startTime, endTime, path) ==
  LET days == SortedDates({d \in Range(Dates(startTime, endTime)) :
                             JoinedCount(rows, siteId, path, d) > 0})
  IN [i \in DOMAIN days |->
        [date |-> days[i],
         count |-> JoinedCount(rows, siteId, path, days[i])]]

DailyViews(rows, siteId, startTime, endTime, path) ==
  LET days == SortedDates(Range(Dates(startTime, endTime)))
  IN [i \in DOMAIN days |->
        [date |-> days[i],
         count |-> JoinedCount(rows, siteId, path, days[i])]]

GetDailyViews(q) ==
  /\ IF db = "null"
     THEN res' = Result("getDailyViews", <<q>>, db, NotInitialized, <<>>)
     ELSE DbAll("getDailyViews", <<q>>,
                {DailyViews(traffic, q.siteId, q.startTime, q.endTime, NULL)})
  /\ UNCHANGED <<dbPath, db, hasTable, traffic, seq, backup, initPc,
                 restorePc, writers, streams, statsPc, now, assigned>>

GetDailyViewsByPath(q, path) ==
  /\ IF db = "null"
     THEN res' = Result("getDailyViewsByPath", <<[q |-> q, path |-> path]>>,
                       db, NotInitialized, <<>>)
     ELSE DbAll("getDailyViewsByPath", <<[q |-> q, path |-> path]>>,
                {DailyViews(traffic, q.siteId, q.startTime, q.endTime, path)})
  /\ UNCHANGED <<dbPath, db, hasTable, traffic, seq, backup, initPc,
                 restorePc, writers, streams, statsPc, now, assigned>>

\* Coalesce giving the column back as it is stored.
CoalesceNothing(v, placeholder) == v

\* COALESCE(column, placeholder)
Coalesce(v, placeholder) == IF v = NULL THEN placeholder ELSE v

\* SELECT COALESCE(col, placeholder) AS col, COUNT(*) AS count ... GROUP BY col.
\* In GROUP BY the name is the table's column, not the alias of the result, so
\* the groups are those of the stored values, NULL forming a group of its own.
GroupCounts(rows, column, placeholder) ==
  {[key |-> v, label |-> Coalesce(v, placeholder),
    count |-> Cardinality({i \in DOMAIN rows : rows[i][column] = v})] :
     v \in {rows[i][column] : i \in DOMAIN rows}}

\* ORDER BY count DESC: every order of the groups with the counts descending
\* (the order of equal counts is the engine's).
RECURSIVE OrderByCountDesc(_)
OrderByCountDesc(groups) ==
  IF groups = {} THEN {<<>>}
  ELSE UNION {{<<g>> \o s : s \in OrderByCountDesc(groups \ {g})} :
                g \in {x \in groups : \A y \in groups : x.count >= y.count}}

RECURSIVE SumCounts(_)
SumCounts(groups) ==
  IF groups = {} THEN 0
  ELSE LET g == CHOOSE x \in groups : TRUE
       IN g.count + SumCounts(groups \ {g})

\* RoundPercentage cutting the third decimal off instead of rounding.
RoundPercentageTruncated(count, total) == (count * 10000) \div total

\* ROUND(CAST(count AS FLOAT) / total * 100, 2), in hundredths of a percent.
RoundPercentage(count, total) == (2 * count * 10000 + total) \div (2 * total)

\* The three breakdown statements: the groups of the matching rows, crossed
\* with the one row of total_count, in ORDER BY count DESC.
Breakdown(rows, q, column, placeholder) ==
  LET groups == GroupCounts(Matching(rows, q.siteId, q.startTime, q.endTime),
                            column, placeholder)
      total == SumCounts(groups)
  IN {[i \in DOMAIN s |->
         [label |-> s[i].label, count |-> s[i].count,
          percentage |-> RoundPercentage(s[i].count, total)]] :
        s \in OrderByCountDesc(groups)}

ReferrerBreakdown(rows, q) == Breakdown(rows, q, "referrer", "(direct)")
PathsBreakdown(rows, q) == Breakdown(rows, q, "path", "(no path)")
CountryBreakdown(rows, q) == Breakdown(rows, q, "country", "(unknown)")

GetReferrerBreakdown(q) ==
  /\ IF db = "null"
     THEN res' = Result("getReferrerBreakdown", <<q>>, db, NotInitialized, <<>>)
     ELSE DbAll("getReferrerBreakdown", <<q>>, ReferrerBreakdown(traffic, q))
  /\ UNCHANGED <<dbPath, db, hasTable, traffic, seq, backup, initPc,
                 restorePc, writers, streams, statsPc, now, assigned>>

GetPathsBreakdown(q) ==
  /\ IF db = "null"
     THEN res' = Result("getPathsBreakdown", <<q>>, db, NotInitialized, <<>>)
     ELSE DbAll("getPathsBreakdown", <<q>>, PathsBreakdown(traffic, q))
  /\ UNCHANGED <<dbPath, db, hasTable, traffic, seq, backup, initPc,
                 restorePc, writers, streams, statsPc, now, assigned>>

GetCountryBreakdown(q) ==
  /\ IF db = "null"
     THEN res' = Result("getCountryBreakdown", <<q>>, db, NotInitialized, <<>>)
     ELSE DbAll("getCountryBreakdown", <<q>>, CountryBreakdown(traffic, q))
  /\ UNCHANGED <<dbPath, db, hasTable, traffic, seq, backup, initPc,
                 restorePc, writers, streams, statsPc, now, assigned>>

\* SELECT * FROM traffic [WHERE site_id = ?] ORDER BY id DESC LIMIT 100; the
\* filter is there only for a truthy siteId.
Reverse(s) == [i \in DOMAIN s |-> s[Len(s) + 1 - i]]

\* LatestTraffic in ascending order of id: the oldest events.
LatestTrafficOldest(rows, siteId) ==
  Limit(SelectSeq(rows, LAMBDA r :
          (siteId # NULL /\ siteId # "") => r.site_id = siteId),
        LatestLimit)

LatestTraffic(rows, siteId) ==
  Limit(Reverse(SelectSeq(rows, LAMBDA r :
                  (siteId # NULL /\ siteId # "") => r.site_id = siteId)),
        LatestLimit)

GetLatestTraffic(siteId) ==
  /\ IF db = "null"
     THEN res' = Result("getLatestTraffic", <<siteId>>, db, NotInitialized, <<>>)
     ELSE DbAll("getLatestTraffic", <<siteId>>, {LatestTraffic(traffic, siteId)})
  /\ UNCHANGED <<dbPath, db, hasTable, traffic, seq, backup, initPc,
                 restorePc, writers, streams, statsPc, now, assigned>>

\* BasicStats with total_website_requests counting the request type "static"
\* only.
BasicStatsStaticOnly(rows, q) ==
  LET m == Matching(rows, q.siteId, q.startTime, q.endTime)
  IN [total_requests |-> Len(m),
      unique_visitors |->
        Cardinality({m[i].ip_address : i \in DOMAIN m} \ {NULL}),
      total_website_requests |->
        Cardinality({i \in DOMAIN m : m[i].request_type = "static"}),
      total_server_requests |->
        Cardinality({i \in DOMAIN m : m[i].request_type = "api"})]

\* The first statement of getTrafficStats.
BasicStats(rows, q) ==
  LET m == Matching(rows, q.siteId, q.startTime, q.endTime)
  IN [total_requests |-> Len(m),
      unique_visitors |->
        Cardinality({m[i].ip_address : i \in DOMAIN m} \ {NULL}),
      total_website_requests |->
        Cardinality({i \in DOMAIN m : m[i].request_type \in {"static", NULL}}),
      total_server_requests |->
        Cardinality({i \in DOMAIN m : m[i].request_type = "api"})]

\* TopReferrers without the LIMIT.
TopReferrersUnlimited(rows, q) ==
  {[i \in DOMAIN s |-> [referrer |-> s[i].label, count |-> s[i].count]] :
     s \in OrderByCountDesc(
             GroupCounts(Matching(rows, q.siteId, q.startTime, q.endTime),
                         "referrer", "(direct)"))}

\* Its second statement: ... GROUP BY referrer ORDER BY count DESC LIMIT 10.
TopReferrers(rows, q) ==
  {Limit([i \in DOMAIN s |-> [referrer |-> s[i].label, count |-> s[i].count]],
         TopReferrersLimit) :
     s \in OrderByCountDesc(
             GroupCounts(Matching(rows, q.siteId, q.startTime, q.endTime),
                         "referrer", "(direct)"))}

\* GetTrafficStatsCall without the guard on this.db.
GetTrafficStatsCallUnguarded(q) ==
  /\ statsPc = <<>>
  /\ IF DriverErr(db, hasTable) # ErrNone
     THEN /\ res' = Result("getTrafficStats", <<q>>, db,
                           DriverErr(db, hasTable), <<>>)
          /\ UNCHANGED statsPc
     ELSE /\ statsPc' = <<[q |-> q, basicStats |-> BasicStats(traffic, q)]>>
          /\ UNCHANGED res
  /\ UNCHANGED <<dbPath, db, hasTable, traffic, seq, backup, initPc,
                 restorePc, writers, streams, now, assigned>>

\* getTrafficStats up to the await of its first statement.
GetTrafficStatsCall(q) ==
  /\ statsPc = <<>>
  /\ IF db = "null"
     THEN /\ res' = Result("getTrafficStats", <<q>>, db, NotInitialized, <<>>)
          /\ UNCHANGED statsPc
     ELSE IF DriverErr(db, hasTable) # ErrNone
     THEN /\ res' = Result("getTrafficStats", <<q>>, db,
                           DriverErr(db, hasTable), <<>>)
          /\ UNCHANGED statsPc
     ELSE /\ statsPc' = <<[q |-> q, basicStats |-> BasicStats(traffic, q)]>>
          /\ UNCHANGED res
  /\ UNCHANGED <<dbPath, db, hasTable, traffic, seq, backup, initPc,
                 restorePc, writers, streams, now, assigned>>

\* Its second statement and the return of {...basicStats, top_referrers}.
GetTrafficStatsTop ==
  /\ statsPc # <<>>
  /\ IF DriverErr(db, hasTable) # ErrNone
     THEN res' = Result("getTrafficStats", <<statsPc[1].q>>, db,
                        DriverErr(db, hasTable), <<>>)
     ELSE \E top \in TopReferrers(traffic, statsPc[1].q) :
            res' = Result("getTrafficStats", <<statsPc[1].q>>, db, ErrNone,
                          <<[total_requests |->
                               statsPc[1].basicStats.total_requests,
                             unique_visitors |->
                               statsPc[1].basicStats.unique_visitors,
                             total_website_requests |->
                               statsPc[1].basicStats.total_website_requests,
                             total_server_requests |->
                               statsPc[1].basicStats.total_server_requests,
                             top_referrers |-> top]>>)
  /\ statsPc' = <<>>
  /\ UNCHANGED <<dbPath, db, hasTable, traffic, seq, backup, initPc,
                 restorePc, writers, streams, now, assigned>>

\* Time passes.
Tick(ms) ==
  /\ now' = now + ms
  /\ UNCHANGED <<dbPath, db, hasTable, traffic, seq, backup, initPc,
                 restorePc, writers, streams, statsPc, res, assigned>>

(* ------------------------------------------------------------------ *)
(* Specifications                                                       *)
(* ------------------------------------------------------------------ *)

\* The clock at construction, and the step of the clock: 11:06:40 and half a
\* day, so that every second step crosses midnight.
StartClock == 40000 * MsPerSecond
HalfDay == (SecondsPerDay \div 2) * MsPerSecond

\* After new TrafficDB(path): no handle, no statement, nothing in flight.
Init ==
  /\ dbPath \in {MemoryPath, FilePath}
  /\ db = "null"
  /\ hasTable = FALSE
  /\ traffic = <<>>
  /\ seq = 0
  /\ backup = <<>>
  /\ initPc = "idle"
  /\ restorePc = "idle"
  /\ writers = [w \in Writers |-> IdleWriter]
  /\ streams = [s \in Streams |-> IdleStream]
  /\ statsPc = <<>>
  /\ now = StartClock
  /\ res = NoResult
  /\ assigned = <<>>

\* The store's whole life: every operation at any time, on one kind of event.
LifeInputs == {Input("s1", <<>>, "/", NULL, NULL, NULL, NULL)}
LifeQueries == {Query("s1", 0, StartClock, <<1>>)}

\* Requests in flight: prepared statements, running generators, and a
\* getTrafficStats between its statements.
Busy ==
  Cardinality(InFlight) +
  Cardinality({t \in Streams : streams[t].pc = "active"}) +
  Len(statsPc)

Next ==
  \/ InitializeCall
  \/ InitializeOpen
  \/ InitializeSchema
  \/ Close
  \/ BackupDatabase
  \/ RestoreCall
  \/ RestoreClose
  \/ RestoreWrite
  \/ \E w \in Writers, rec \in LifeInputs :
       /\ Len(traffic) < MaxEvents
       /\ Busy < MaxInFlight
       /\ RecordTrafficCall(w, rec)
  \/ \E w \in Writers : RecordTrafficRun(w)
  \/ \E s \in Streams, q \in LifeQueries, eager \in BOOLEAN :
       /\ Busy < MaxInFlight
       /\ StreamStart(s, q, eager)
  \/ \E s \in Streams : StreamFetch(s)
  \/ \E q \in LifeQueries : GetDailyViews(q)
  \/ \E q \in LifeQueries : GetDailyViewsByPath(q, "/")
  \/ \E q \in LifeQueries :
       /\ Busy < MaxInFlight
       /\ GetTrafficStatsCall(q)
  \/ GetTrafficStatsTop
  \/ \E q \in LifeQueries : GetReferrerBreakdown(q)
  \/ \E q \in LifeQueries : GetPathsBreakdown(q)
  \/ \E q \in LifeQueries : GetCountryBreakdown(q)
  \/ GetLatestTraffic(NULL)

Spec == Init /\ [][Next]_vars

\* Appends of several callers interleaved with a cursor stream, on a store
\* that is opened once.  The window of the queries is [2000, 3000] on site s1.
StreamInputs ==
  {Input("s1", <<ts>>, NULL, NULL, NULL, NULL, NULL) :
     ts \in {1000, 2000, 3000, 4000}}
  \cup {Input("s2", <<2000>>, NULL, NULL, NULL, NULL, NULL)}

StreamQueries ==
  {Query("s1", 2000, 3000, bs) : bs \in {<<>>, <<-1>>, <<0>>, <<1>>, <<2>>}}

NextStream ==
  \/ db = "null" /\ InitializeCall
  \/ InitializeOpen
  \/ InitializeSchema
  \/ \E w \in Writers, rec \in StreamInputs :
       /\ Len(traffic) + Cardinality(InFlight) < MaxStreamEvents
       /\ RecordTrafficCall(w, rec)
  \/ \E w \in Writers : RecordTrafficRun(w)
  \/ \E s \in Streams, q \in StreamQueries, eager \in BOOLEAN :
       StreamStart(s, q, eager)
  \/ \E s \in Streams : StreamFetch(s)

SpecStream == Init /\ [][NextStream]_vars

\* Generators that are consumed to their end, next to appends: the consumer
\* goes on asking for the next record and the driver answers every
\* statement, so a fetch that can be made is made.  Up to three events of
\* site s1 lie in the window of the queries.
DrainInputs ==
  {Input("s1", <<2000>>, NULL, NULL, NULL, NULL, NULL),
   Input("s1", <<4000>>, NULL, NULL, NULL, NULL, NULL),
   Input("s2", <<2000>>, NULL, NULL, NULL, NULL, NULL)}

DrainQueries ==
  {Query("s1", 2000, 3000, bs) : bs \in {<<>>, <<0>>, <<1>>, <<2>>}}

NextDrain ==
  \/ db = "null" /\ InitializeCall
  \/ InitializeOpen
  \/ InitializeSchema
  \/ \E w \in Writers, rec \in DrainInputs :
       /\ Len(traffic) + Cardinality(InFlight) < MaxStreamEvents
       /\ RecordTrafficCall(w, rec)
  \/ \E w \in Writers : RecordTrafficRun(w)
  \/ \E s \in Streams, q \in DrainQueries, eager \in BOOLEAN :
       StreamStart(s, q, eager)
  \/ \E s \in Streams : StreamFetch(s)

SpecDrain ==
  /\ Init
  /\ [][NextDrain]_vars
  /\ WF_vars(\E s \in Streams : StreamFetch(s))

\* Daily views while the clock moves: events of two sites ingested on the
\* first three days of the epoch, queried between instants around midnight.
DayMs == SecondsPerDay * MsPerSecond

DailyInputs ==
  {Input(site, <<>>, NULL, NULL, NULL, NULL, NULL) : site \in {"s1", "s2"}}

DailyInstants == {0, DayMs - 1, DayMs, 2 * DayMs + 1}

DailyQueries ==
  {Query("s1", a, b, <<>>) : a \in DailyInstants, b \in DailyInstants}

NextDaily ==
  \/ db = "null" /\ InitializeCall
  \/ InitializeOpen
  \/ InitializeSchema
  \/ now < StartClock + MaxTicks * HalfDay /\ Tick(HalfDay)
  \/ \E w \in Writers, rec \in DailyInputs :
       /\ Len(traffic) < MaxDailyEvents
       /\ Busy < MaxInFlight
       /\ RecordTrafficCall(w, rec)
  \/ \E w \in Writers : RecordTrafficRun(w)
  \/ \E q \in DailyQueries : GetDailyViews(q)

SpecDaily == Init /\ [][NextDaily]_vars

\* The breakdowns over events that differ in referrer, path and country, some
\* of them outside the window [2000, 3000] of the queries or of another site.
BreakdownInputs ==
  {Input("s1", <<2000>>, "/", "g.com", "US", NULL, NULL),
   Input("s1", <<3000>>, "/a", NULL, "DE", NULL, NULL),
   Input("s1", <<2000>>, NULL, "t.co", NULL, NULL, NULL),
   Input("s1", <<4000>>, "/", "g.com", "US", NULL, NULL),
   Input("s2", <<2000>>, "/", "g.com", "US", NULL, NULL)}

BreakdownQueries == {Query("s1", 2000, 3000, <<>>)}

NextBreakdown ==
  \/ db = "null" /\ InitializeCall
  \/ InitializeOpen
  \/ InitializeSchema
  \/ \E w \in Writers, rec \in BreakdownInputs :
       /\ Len(traffic) < MaxBreakdownEvents
       /\ Busy < MaxInFlight
       /\ RecordTrafficCall(w, rec)
  \/ \E w \in Writers : RecordTrafficRun(w)
  \/ \E q \in BreakdownQueries : GetReferrerBreakdown(q)
  \/ \E q \in BreakdownQueries : GetPathsBreakdown(q)
  \/ \E q \in BreakdownQueries : GetCountryBreakdown(q)

SpecBreakdown == Init /\ [][NextBreakdown]_vars

\* getTrafficStats over events that differ in ip address, request type and
\* referrer, some outside the window [2000, 3000] of the query or of another
\* site; appends go on between its two statements.
StatsInputs ==
  {Input("s1", <<2000>>, NULL, "g.com", NULL, "ip1", "static"),
   Input("s1", <<2500>>, NULL, NULL, NULL, "ip1", "api"),
   Input("s1", <<3000>>, NULL, "t.co", NULL, NULL, NULL),
   Input("s1", <<2000>>, NULL, NULL, NULL, "ip2", "other"),
   Input("s1", <<4000>>, NULL, "g.com", NULL, "ip3", "api"),
   Input("s2", <<2000>>, NULL, "g.com", NULL, "ip4", "static")}

StatsQueries == {Query("s1", 2000, 3000, <<>>)}

NextStats ==
  \/ db = "null" /\ InitializeCall
  \/ InitializeOpen
  \/ InitializeSchema
  \/ \E w \in Writers, rec \in StatsInputs :
       /\ Len(traffic) + Cardinality(InFlight) < MaxStatsEvents
       /\ Cardinality(InFlight) < MaxInFlight
       /\ RecordTrafficCall(w, rec)
  \/ \E w \in Writers : RecordTrafficRun(w)
  \/ \E q \in StatsQueries : GetTrafficStatsCall(q)
  \/ GetTrafficStatsTop

SpecStats == Init /\ [][NextStats]_vars

\* getTrafficStats on a file that holds events of many referrers.  A table is
\* given by the number n of its referrers, by whether the two rarest of them
\* are tied, and by which of them (none, the rarest, the most frequent) is the
\* omitted referrer: referrer i has i events (the first has 2 in a tied table),
\* all inside the window [2000, 3000] of the query; an event outside the
\* window and an event of another site close the table.
TopCount(i, tied) == IF tied /\ i = 1 THEN 2 ELSE i

TopReferrer(i, nullAt) == IF i = nullAt THEN NULL ELSE ToString(i)

RECURSIVE TopEvents(_, _, _, _)
TopEvents(i, n, tied, nullAt) ==
  IF i > n THEN <<>>
  ELSE [k \in 1..TopCount(i, tied) |->
          Input("s1", <<2000 + i>>, NULL, TopReferrer(i, nullAt), NULL, NULL,
                NULL)]
       \o TopEvents(i + 1, n, tied, nullAt)

TopTable(n, tied, nullAt) ==
  LET events == TopEvents(1, n, tied, nullAt)
                  \o <<Input("s1", <<4000>>, NULL, "far", NULL, NULL, NULL),
                       Input("s2", <<2000>>, NULL, "other", NULL, NULL, NULL)>>
  IN [id \in DOMAIN events |->
        InsertedRow(DefaultTimestamp(events[id], StartClock), id, StartClock)]

TopTables ==
  {TopTable(n, tied, nullAt) :
     n \in 0..MaxReferrers, tied \in BOOLEAN, nullAt \in {0, 1, MaxReferrers}}

TopQueries == {Query("s1", 2000, 3000, <<>>)}

\* After new TrafficDB("traffic.db") and initialize() on a file that holds
\* one of these tables.
InitTop ==
  /\ dbPath = FilePath
  /\ db = "open"
  /\ hasTable = TRUE
  /\ traffic \in TopTables
  /\ seq = Len(traffic)
  /\ backup = <<>>
  /\ initPc = "idle"
  /\ restorePc = "idle"
  /\ writers = [w \in Writers |-> IdleWriter]
  /\ streams = [s \in Streams |-> IdleStream]
  /\ statsPc = <<>>
  /\ now = StartClock
  /\ res = NoResult
  /\ assigned = [id \in {traffic[i].id : i \in DOMAIN traffic} |-> 1]

NextTop ==
  \/ \E q \in TopQueries : GetTrafficStatsCall(q)
  \/ GetTrafficStatsTop

SpecTop == InitTop /\ [][NextTop]_vars

\* Every read operation next to appends, on a store that is opened once.  The
\* windowed queries are over [2000, 3000], the daily ones over the first
\* three days of the epoch; site s3 never has an event, path "/x" neither.
ReportInputs ==
  {Input("s1", <<1000>>, "/", NULL, NULL, NULL, NULL),
   Input("s1", <<2500>>, "/a", "g.com", "US", "ip1", "api"),
   Input("s1", <<4000>>, "/", NULL, NULL, NULL, NULL),
   Input("s2", <<2000>>, "/", "g.com", "US", "ip1", NULL)}

ReportSites == {"s1", "s3"}

ReportQueries == {Query(site, 2000, 3000, <<1>>) : site \in ReportSites}

ReportDailyQueries ==
  {Query(site, 0, 2 * DayMs + 1, <<>>) : site \in ReportSites}

ReportPaths == {"/", "/x", ""}

NextReports ==
  \/ db = "null" /\ InitializeCall
  \/ InitializeOpen
  \/ InitializeSchema
  \/ \E w \in Writers, rec \in ReportInputs :
       /\ Len(traffic) < MaxReportEvents
       /\ Busy < MaxInFlight
       /\ RecordTrafficCall(w, rec)
  \/ \E w \in Writers : RecordTrafficRun(w)
  \/ \E s \in Streams, q \in ReportQueries, eager \in BOOLEAN :
       /\ Busy < MaxInFlight
       /\ StreamStart(s, q, eager)
  \/ \E s \in Streams : StreamFetch(s)
  \/ \E q \in ReportDailyQueries : GetDailyViews(q)
  \/ \E q \in ReportDailyQueries, path \in ReportPaths :
       GetDailyViewsByPath(q, path)
  \/ \E q \in ReportQueries :
       /\ Busy < MaxInFlight
       /\ GetTrafficStatsCall(q)
  \/ GetTrafficStatsTop
  \/ \E q \in ReportQueries : GetReferrerBreakdown(q)
  \/ \E q \in ReportQueries : GetPathsBreakdown(q)
  \/ \E q \in ReportQueries : GetCountryBreakdown(q)
  \/ \E siteId \in {NULL, "s1"} : GetLatestTraffic(siteId)

SpecReports == Init /\ [][NextReports]_vars

\* Daily views, plain and by path, of events whose timestamp is given by the
\* caller and differs from the time of ingestion, while the clock moves over
\* the first three days of the epoch.  The queries are over day 0 and over
\* days 1 to 2; a path may be omitted (NULL) or empty.
IngestInputs ==
  {Input("s1", <<0>>, "/", NULL, NULL, NULL, NULL),
   Input("s1", <<3 * DayMs>>, "/a", NULL, NULL, NULL, NULL),
   Input("s1", <<>>, "", NULL, NULL, NULL, NULL),
   Input("s2", <<0>>, "/", NULL, NULL, NULL, NULL)}

IngestQueries ==
  {Query("s1", 0, DayMs - 1, <<>>), Query("s1", DayMs, 2 * DayMs + 1, <<>>)}

IngestPaths == {"/", "/a", "", NULL}

NextIngest ==
  \/ db = "null" /\ InitializeCall
  \/ InitializeOpen
  \/ InitializeSchema
  \/ now < StartClock + MaxTicks * HalfDay /\ Tick(HalfDay)
  \/ \E w \in Writers, rec \in IngestInputs :
       /\ Len(traffic) < MaxIngestEvents
       /\ Busy < MaxInFlight
       /\ RecordTrafficCall(w, rec)
  \/ \E w \in Writers : RecordTrafficRun(w)
  \/ \E q \in IngestQueries : GetDailyViews(q)
  \/ \E q \in IngestQueries, path \in IngestPaths : GetDailyViewsByPath(q, path)

SpecIngest == Init /\ [][NextIngest]_vars

\* getLatestTraffic on a file that holds up to MaxLatestRows events, two of
\* every three of site s1 and the third of site s2, so that the largest
\* tables hold more than LatestLimit events of s1.
LatestTable(n) ==
  [id \in 1..n |->
     InsertedRow(DefaultTimestamp(
                   Input(IF id % 3 = 0 THEN "s2" ELSE "s1", <<>>, "/", NULL,
                         NULL, NULL, NULL),
                   StartClock),
                 id, StartClock)]

LatestTables == {LatestTable(n) : n \in 0..MaxLatestRows}

\* The siteId argument: omitted, empty, a site with events, one without.
LatestSites == {NULL, "", "s1", "s3"}

InitLatest ==
  /\ dbPath = FilePath
  /\ db = "open"
  /\ hasTable = TRUE
  /\ traffic \in LatestTables
  /\ seq = Len(traffic)
  /\ backup = <<>>
  /\ initPc = "idle"
  /\ restorePc = "idle"
  /\ writers = [w \in Writers |-> IdleWriter]
  /\ streams = [s \in Streams |-> IdleStream]
  /\ statsPc = <<>>
  /\ now = StartClock
  /\ res = NoResult
  /\ assigned = [id \in {traffic[i].id : i \in DOMAIN traffic} |-> 1]

NextLatest == \E siteId \in LatestSites : GetLatestTraffic(siteId)

SpecLatest == InitLatest /\ [][NextLatest]_vars

\* Two consumers, each driving a generator of its own over the window
\* [2000, 3000] of site s1, with batches of one row or the default,
\* next to appends on a store that is opened once.  A consumer may leave its
\* generator before it is done.
Consumers == {1, 2}

CursorInputs ==
  {Input("s1", <<2000>>, NULL, NULL, NULL, NULL, NULL),
   Input("s1", <<3000>>, NULL, NULL, NULL, NULL, NULL),
   Input("s2", <<2000>>, NULL, NULL, NULL, NULL, NULL)}

CursorQueries ==
  {Query("s1", 2000, 3000, bs) : bs \in {<<>>, <<1>>}}

InitCursors ==
  /\ dbPath = FilePath
  /\ db = "null"
  /\ hasTable = FALSE
  /\ traffic = <<>>
  /\ seq = 0
  /\ backup = <<>>
  /\ initPc = "idle"
  /\ restorePc = "idle"
  /\ writers = [w \in Writers |-> IdleWriter]
  /\ streams = [s \in Consumers |-> IdleStream]
  /\ statsPc = <<>>
  /\ now = StartClock
  /\ res = NoResult
  /\ assigned = <<>>

NextCursors ==
  \/ db = "null" /\ InitializeCall
  \/ InitializeOpen
  \/ InitializeSchema
  \/ \E w \in Writers, rec \in CursorInputs :
       /\ Len(traffic) + Cardinality(InFlight) < MaxCursorEvents
       /\ Cardinality(InFlight) < MaxInFlight
       /\ RecordTrafficCall(w, rec)
  \/ \E w \in Writers : RecordTrafficRun(w)
  \/ \E s \in Consumers, q \in CursorQueries, eager \in BOOLEAN :
       StreamStart(s, q, eager)
  \/ \E s \in Consumers : StreamFetch(s)
  \/ \E s \in Consumers : StreamAbandon(s)

SpecCursors == InitCursors /\ [][NextCursors]_vars

(* ------------------------------------------------------------------ *)
(* testData: generateTestData                                           *)
(* ------------------------------------------------------------------ *)

SITE_ID == "test-site-1"

\* Object.entries(REFERRERS): the keys of an object literal are strings, so the
\* key written null is the string "null"; the order is that of the literal.
REFERRERS ==
  << <<"https://google.com", 35>>, <<"https://twitter.com", 20>>,
     <<"https://facebook.com", 15>>, <<"https://github.com", 10>>,
     <<"https://hn.algolia.com", 8>>, <<"https://linkedin.com", 7>>,
     <<"null", 5>> >>

\* Of the eight PATHS, four USER_AGENTS and seven LOCATIONS, two each.
PATHS == {"/", "/blog"}
USER_AGENTS == {"Mozilla/5.0 (Macintosh)", "Mozilla/5.0 (iPhone)"}
LOCATIONS ==
  {[country |-> "US", city |-> "San Francisco"],
   [country |-> "GB", city |-> "London"]}

\* The for loop of getWeightedReferrer from entry i on, with sum the weights
\* added so far; return null after the loop.
RECURSIVE WeightedReferrerFrom(_, _, _)
WeightedReferrerFrom(i, sum, rand) ==
  IF i > Len(REFERRERS) THEN NULL
  ELSE IF rand <= sum + REFERRERS[i][2] THEN REFERRERS[i][1]
  ELSE WeightedReferrerFrom(i + 1, sum + REFERRERS[i][2], rand)

\* getWeightedReferrer() for rand = Math.random() * 100.
GetWeightedReferrer(rand) == WeightedReferrerFrom(1, 0, rand)

\* value || "": the empty string for null and for the empty string.
OrEmpty(value) == IF value = NULL \/ value = "" THEN "" ELSE value

\* The record one turn of the loop of generateTestData passes to
\* recordTraffic; requestType is not passed.
TestRecord(rand, timestamp, path, userAgent, location) ==
  [siteId |-> SITE_ID, timestamp |-> <<timestamp>>, path |-> path,
   userAgent |-> userAgent, ipAddress |-> "10.0.0.1",
   country |-> location.country, city |-> location.city,
   referrer |-> OrEmpty(GetWeightedReferrer(rand)), requestType |-> NULL]

\* Values of Math.random() * 100, which is below 100: the ends of the weight
\* ranges and the values next to them.
TestRandoms == {0, 35, 36, 88, 95, 96, 99}

\* One turn of the loop up to the await of recordTraffic; the timestamp lies
\* between the start of the generated period and now.
GenerateTestDataCall(w) ==
  \E rand \in TestRandoms, timestamp \in {0, now}, path \in PATHS,
     userAgent \in USER_AGENTS, location \in LOCATIONS :
    RecordTrafficCall(w, TestRecord(rand, timestamp, path, userAgent, location))

\* The bodies POST /analytics receives: every optional field present with a
\* value, or left out.
AnalyticsBodies ==
  {[siteId |-> "s1", timestamp |-> <<>>, path |-> "/pricing",
    userAgent |-> "curl/8", ipAddress |-> "10.0.0.2", country |-> "DE",
    city |-> "Berlin", referrer |-> "https://example.com",
    requestType |-> "static"],
   Input("s1", <<>>, NULL, NULL, NULL, NULL, NULL)}

\* The callers of recordTraffic: POST /analytics and generateTestData, on the
\* file traffic.db.
NextTestData ==
  \/ db = "null" /\ InitializeCall
  \/ InitializeOpen
  \/ InitializeSchema
  \/ \E w \in Writers, body \in AnalyticsBodies :
       /\ Len(traffic) + Cardinality(InFlight) < MaxTestRecords
       /\ Cardinality(InFlight) < MaxInFlight
       /\ RecordTrafficCall(w, body)
  \/ \E w \in Writers :
       /\ Len(traffic) + Cardinality(InFlight) < MaxTestRecords
       /\ Cardinality(InFlight) < MaxInFlight
       /\ GenerateTestDataCall(w)
  \/ \E w \in Writers : RecordTrafficRun(w)

SpecTestData == Init /\ [][NextTestData]_vars

\* The breakdowns and getTrafficStats over events whose referrer, path and
\* country are null, are a text of their own, or are the very text the
\* statements put in the place of null.
PlaceholderInputs ==
  {Input("s1", <<2000>>, NULL, NULL, NULL, NULL, NULL),
   Input("s1", <<2000>>, "(no path)", "(direct)", "(unknown)", NULL, NULL),
   Input("s1", <<2000>>, "/", "g.com", "US", NULL, NULL)}

PlaceholderQueries == {Query("s1", 2000, 3000, <<>>)}

NextPlaceholder ==
  \/ db = "null" /\ InitializeCall
  \/ InitializeOpen
  \/ InitializeSchema
  \/ \E w \in Writers, rec \in PlaceholderInputs :
       /\ Len(traffic) < MaxPlaceholderEvents
       /\ Busy < MaxInFlight
       /\ RecordTrafficCall(w, rec)
  \/ \E w \in Writers : RecordTrafficRun(w)
  \/ \E q \in PlaceholderQueries : GetReferrerBreakdown(q)
  \/ \E q \in PlaceholderQueries : GetPathsBreakdown(q)
  \/ \E q \in PlaceholderQueries : GetCountryBreakdown(q)
  \/ \E q \in PlaceholderQueries :
       /\ Busy < MaxInFlight
       /\ GetTrafficStatsCall(q)
  \/ GetTrafficStatsTop

SpecPlaceholder == Init /\ [][NextPlaceholder]_vars

\* index.ts as it runs: the store is opened once at start, the routes append
\* and read, the cron job backs up, and only restoreDatabase closes and
\* re-opens the store.
RestoreInputs == {Input("s1", <<>>, "/", NULL, NULL, NULL, NULL)}
RestoreQueries == {Query("s1", 0, StartClock, <<1>>)}

InitRestore == Init /\ dbPath = FilePath

NextRestore ==
  \/ db = "null" /\ InitializeCall
  \/ InitializeOpen
  \/ InitializeSchema
  \/ BackupDatabase
  \/ RestoreCall
  \/ RestoreClose
  \/ RestoreWrite
  \/ \E w \in Writers, rec \in RestoreInputs :
       /\ Len(traffic) < MaxEvents
       /\ Busy < MaxInFlight
       /\ RecordTrafficCall(w, rec)
  \/ \E w \in Writers : RecordTrafficRun(w)
  \/ \E q \in RestoreQueries : GetDailyViews(q)
  \/ \E q \in RestoreQueries : GetReferrerBreakdown(q)
  \/ GetLatestTraffic(NULL)

SpecRestore == InitRestore /\ [][NextRestore]_vars

(* ------------------------------------------------------------------ *)
(* Properties                                                           *)
(* ------------------------------------------------------------------ *)

IsStrictlyAscendingById(rows) ==
  \A i, j \in DOMAIN rows : i < j => rows[i].id < rows[j].id

\* A generator that ran to its end, with the state it ended in.
StreamDone ==
  /\ res.op \in {"queryTraffic", "queryTrafficStream"}
  /\ res.err = ErrNone
  /\ res.arg # <<>>

\* The rows of a table that a stream over (siteId, startTime, endTime) is to
\* deliver, as the specification words it.
Wanted(rows, st) ==
  SelectSeq(rows, LAMBDA r : /\ r.site_id = st.siteId
                             /\ st.startTime <= r.timestamp
                             /\ r.timestamp <= st.endTime)

\* C1: whatever the interleaving of the recordTraffic calls of several callers,
\* a step that changes the table appends exactly one row and leaves the rows
\* before it alone, the id of the new row is larger than every id stored, a
\* call that resolves without error has stored the row of its arguments, and
\* the ids of the table are pairwise distinct and increase in commit order.
C1_AppendAssignsIncreasingIds ==
  [][/\ traffic' # traffic =>
          /\ Len(traffic') = Len(traffic) + 1
          /\ SubSeq(traffic', 1, Len(traffic)) = traffic
          /\ \A i \in DOMAIN traffic :
               traffic[i].id < traffic'[Len(traffic')].id
     /\ \A w \in Writers :
          (writers[w].pc = "prepared" /\ writers'[w].pc = "idle"
             /\ res'.err = ErrNone) =>
            /\ Len(traffic') = Len(traffic) + 1
            /\ traffic'[Len(traffic')].site_id = writers[w].rec[1].siteId
            /\ traffic'[Len(traffic')].timestamp = writers[w].rec[1].timestamp
     /\ IsStrictlyAscendingById(traffic')]_vars

\* C1 witness: two inserts have committed, the last call resolved, and the
\* statement of another caller is still in flight.
C1_Witness ==
  /\ Len(traffic) >= 2
  /\ res.op = "recordTraffic"
  /\ res.err = ErrNone
  /\ InFlight # {}

\* C2 as stated: a finished stream has delivered exactly the wanted rows of the
\* table it started on, for every batchSize.
C2_Original ==
  StreamDone => res.val = Wanted(res.arg[1].atStart, res.arg[1])

\* C2 amended: a finished stream with batchSize 0 has delivered nothing; for
\* every other batchSize it has delivered, in ascending id order and each
\* once, wanted rows only and every wanted row of the table it started on, and
\* when no wanted row was appended since it started these are exactly the rows
\* it delivered.
C2_StreamReturnsWantedRows ==
  StreamDone =>
    LET st == res.arg[1]
    IN IF st.batchSize = 0 THEN res.val = <<>> ELSE
       /\ IsStrictlyAscendingById(res.val)
       /\ \A i \in DOMAIN res.val :
            /\ res.val[i].site_id = st.siteId
            /\ st.startTime <= res.val[i].timestamp
            /\ res.val[i].timestamp <= st.endTime
       /\ Range(Wanted(st.atStart, st)) \subseteq Range(res.val)
       /\ Wanted(traffic, st) = Wanted(st.atStart, st) =>
            res.val = Wanted(st.atStart, st)

\* C2 witness: a stream with batchSize 1 has ended after delivering two rows
\* of a table that also holds a row it is not to deliver.
C2_Witness ==
  /\ StreamDone
  /\ res.arg[1].batchSize = 1
  /\ Len(res.val) = 2
  /\ res.val = Wanted(res.arg[1].atStart, res.arg[1])
  /\ Len(res.arg[1].atStart) = 3

\* C3 as stated: with appends between the fetches, the rows a stream has
\* yielded so far are in strictly ascending id order (so none twice), and a
\* finished stream has yielded every wanted row that existed when it started.
C3_Original ==
  /\ \A s \in Streams : IsStrictlyAscendingById(streams[s].yielded)
  /\ StreamDone =>
       /\ IsStrictlyAscendingById(res.val)
       /\ Range(Wanted(res.arg[1].atStart, res.arg[1])) \subseteq Range(res.val)

\* C3 amended: the same for a stream whose batchSize is not 0; a stream whose
\* batchSize is 0 never yields a row, whatever the table holds.
C3_StreamUnderAppends ==
  /\ \A s \in Streams :
       /\ IsStrictlyAscendingById(streams[s].yielded)
       /\ streams[s].batchSize = 0 => streams[s].yielded = <<>>
  /\ (StreamDone /\ res.arg[1].batchSize # 0) =>
       /\ IsStrictlyAscendingById(res.val)
       /\ Range(Wanted(res.arg[1].atStart, res.arg[1])) \subseteq Range(res.val)

\* C3 witness: a finished stream yielded a row that was appended after it
\* started, next to a row that existed when it started.
C3_Witness ==
  /\ StreamDone
  /\ res.arg[1].batchSize = 1
  /\ Wanted(res.arg[1].atStart, res.arg[1]) # <<>>
  /\ \E i \in DOMAIN res.val :
       \A j \in DOMAIN res.arg[1].atStart :
         res.arg[1].atStart[j].id # res.val[i].id

\* The operations of the store that the guard on this.db protects.
StoreOps ==
  {"recordTraffic", "queryTrafficStream", "queryTraffic", "getDailyViews",
   "getDailyViewsByPath", "getTrafficStats", "getReferrerBreakdown",
   "getPathsBreakdown", "getCountryBreakdown", "getLatestTraffic"}

\* restoreDatabase has closed the store and initialize() has not yet put a new
\* handle into this.db.
InRestoreWindow ==
  \/ restorePc = "closed"
  \/ restorePc = "init" /\ initPc = "opening"

\* C4 as stated: a store operation whose outcome falls into the window between
\* the close and the re-initialization of restoreDatabase fails with
\* "Database not initialized".
C4_Original ==
  [][(InRestoreWindow /\ res' # res /\ res'.op \in StoreOps) =>
       res'.err = NotInitialized]_vars

\* C5 as stated: close() on a store that was never initialized, and close()
\* after a close, resolve without error.
C5_Original ==
  (res.op = "close" /\ res.handle \in {"null", "closed"}) => res.err = ErrNone

\* C6: an operation of the store that finds this.db null fails with "Database
\* not initialized" and returns nothing, and as long as this.db is null no
\* statement is prepared, no generator runs, no report is under way and the
\* table holds no row.
C6_NotInitializedFirst ==
  /\ (res.op \in StoreOps /\ res.handle = "null") =>
       (res.err = NotInitialized /\ res.val = <<>>)
  /\ db = "null" =>
       /\ InFlight = {}
       /\ \A s \in Streams : streams[s].pc = "idle"
       /\ statsPc = <<>>
       /\ traffic = <<>>

\* C6 witness: getTrafficStats was called before initialize() and failed.
C6_Witness ==
  /\ db = "null"
  /\ res.op = "getTrafficStats"
  /\ res.handle = "null"
  /\ res.err = NotInitialized

\* A step of initialize(): the call, the open, the schema.
InitializeStep ==
  \/ initPc = "idle" /\ initPc' = "opening" /\ restorePc' = restorePc
  \/ initPc = "opening" /\ initPc' = "schema"
  \/ initPc = "schema" /\ initPc' = "idle"

Reports(op) == res' # res /\ res'.op = op /\ res'.err = ErrNone

\* The day of the epoch an instant in ms, or in seconds, falls on.
DayOfMs(ms) == (ms \div 1000) \div 86400
DayOfSeconds(secs) == secs \div 86400

\* C8: when the date of startTime is not after the date of endTime,
\* getDailyViews returns one row per calendar day from the one to the other
\* (all of them days of January 1970 here), in ascending order, the count of a
\* day on which no event of the site was ingested is 0, and the count of every
\* day is the number of the site's events ingested on it.
C8_DailyViewsSpine ==
  [][Reports("getDailyViews") =>
       LET q == res'.arg[1]
           first == DayOfMs(q.startTime)
           last == DayOfMs(q.endTime)
           rows == res'.val
       IN first <= last =>
            /\ Len(rows) = last - first + 1
            /\ \A i \in DOMAIN rows :
                 /\ rows[i].date = <<1970, 1, first + i>>
                 /\ (\A k \in DOMAIN traffic :
                       ~(/\ traffic[k].site_id = q.siteId
                         /\ DayOfSeconds(traffic[k].created_at)
                              = first + i - 1))
                    => rows[i].count = 0
                 /\ rows[i].count =
                      Cardinality({k \in DOMAIN traffic :
                                     /\ traffic[k].site_id = q.siteId
                                     /\ DayOfSeconds(traffic[k].created_at)
                                          = first + i - 1})]_vars

\* C8 witness: a report of three days, the first with an event and the
\* second without, on a table that holds an event of another site.
C8_Witness ==
  /\ res.op = "getDailyViews"
  /\ res.err = ErrNone
  /\ Len(res.val) = 3
  /\ res.val[1].count > 0
  /\ res.val[2].count = 0
  /\ \E k \in DOMAIN traffic : traffic[k].site_id # "s1"

BreakdownOps ==
  {"getReferrerBreakdown", "getPathsBreakdown", "getCountryBreakdown"}

RECURSIVE SumOfCounts(_)
SumOfCounts(rows) ==
  IF rows = <<>> THEN 0 ELSE Head(rows).count + SumOfCounts(Tail(rows))

RECURSIVE SumOfPercentages(_)
SumOfPercentages(rows) ==
  IF rows = <<>> THEN 0
  ELSE Head(rows).percentage + SumOfPercentages(Tail(rows))

\* C9: the counts of a breakdown add up to the number of events of the site
\* with startTime <= timestamp <= endTime, its rows are in descending order of
\* count, and it is the empty list when no event matches.
C9_BreakdownCounts ==
  [][\A op \in BreakdownOps :
       Reports(op) =>
         LET wanted == Wanted(traffic, res'.arg[1])
             rows == res'.val
         IN /\ SumOfCounts(rows) = Len(wanted)
            /\ \A i, j \in DOMAIN rows : i < j => rows[i].count >= rows[j].count
            /\ \A i \in DOMAIN rows : rows[i].count > 0
            /\ wanted = <<>> => rows = <<>>]_vars

\* C9 witness: a path breakdown of two rows with counts 2 and 1 over a table
\* that also holds an event outside the window.
C9_Witness ==
  /\ res.op = "getPathsBreakdown"
  /\ res.err = ErrNone
  /\ Len(res.val) = 2
  /\ res.val[1].count = 2
  /\ res.val[2].count = 1
  /\ Len(traffic) = 4

\* C10: in every row of a breakdown the percentage (in hundredths of a
\* percent) is within half a hundredth of count / total * 100, total being the
\* number of matching events, and the percentages of the rows add up to
\* 100.00 within half a hundredth per row.
C10_BreakdownPercentages ==
  [][\A op \in BreakdownOps :
       Reports(op) =>
         LET total == Len(Wanted(traffic, res'.arg[1]))
             rows == res'.val
             diff == SumOfPercentages(rows) - 10000
         IN /\ \A i \in DOMAIN rows :
                 LET d == rows[i].percentage * total - rows[i].count * 10000
                 IN 2 * d <= total /\ -(2 * d) <= total
            /\ total > 0 => (2 * diff <= Len(rows) /\ -(2 * diff) <= Len(rows))]_vars

\* C10 witness: three referrers of one event each, 33.33 percent apiece.
C10_Witness ==
  /\ res.op = "getReferrerBreakdown"
  /\ res.err = ErrNone
  /\ Len(res.val) = 3
  /\ \A i \in DOMAIN res.val : res.val[i].percentage = 3333

\* The column a breakdown groups by and the label it gives to a NULL of it.
ColumnOfOp(op) ==
  IF op = "getReferrerBreakdown" THEN "referrer"
  ELSE IF op = "getPathsBreakdown" THEN "path" ELSE "country"

PlaceholderOfOp(op) ==
  IF op = "getReferrerBreakdown" THEN "(direct)"
  ELSE IF op = "getPathsBreakdown" THEN "(no path)" ELSE "(unknown)"

\* C11: no row of a breakdown has a null label, and the matching events
\* stored with the column omitted are counted, all of them, in a row with the
\* label "(direct)", "(no path)" or "(unknown)".
C11_NullsUnderPlaceholder ==
  [][\A op \in BreakdownOps :
       Reports(op) =>
         LET wanted == Wanted(traffic, res'.arg[1])
             nulls == Cardinality({k \in DOMAIN wanted :
                                     wanted[k][ColumnOfOp(op)] = NULL})
             rows == res'.val
         IN /\ \A i \in DOMAIN rows : rows[i].label # NULL
            /\ nulls > 0 =>
                 \E i \in DOMAIN rows : /\ rows[i].label = PlaceholderOfOp(op)
                                        /\ rows[i].count = nulls]_vars

\* C11 witness: a country breakdown with the row "(unknown)" next to the row
\* of a country.
C11_Witness ==
  /\ res.op = "getCountryBreakdown"
  /\ res.err = ErrNone
  /\ Len(res.val) = 2
  /\ \E i \in DOMAIN res.val : res.val[i].label = "(unknown)"
  /\ \E i \in DOMAIN res.val : res.val[i].label = "US"

\* The first statement of a getTrafficStats has run in this step.
StatsFirstStatement == statsPc = <<>> /\ statsPc' # <<>>

\* C12: the first statement of getTrafficStats counts, over the events of the
\* site with startTime <= timestamp <= endTime that are stored when it runs,
\* all of them (total_requests), the distinct non-null ip addresses
\* (unique_visitors), those with request type "static" or none
\* (total_website_requests) and those with request type "api"
\* (total_server_requests); getTrafficStats returns these four numbers; and
\* when every such event has request type none, "static" or "api",
\* total_requests is the sum of the other two totals.
C12_StatsFields ==
  [][/\ StatsFirstStatement =>
          LET wanted == Wanted(traffic, statsPc'[1].q)
              basic == statsPc'[1].basicStats
          IN /\ basic.total_requests = Len(wanted)
             /\ basic.unique_visitors =
                  Cardinality({wanted[k].ip_address : k \in DOMAIN wanted}
                                \ {NULL})
             /\ basic.total_website_requests =
                  Cardinality({k \in DOMAIN wanted :
                                 \/ wanted[k].request_type = "static"
                                 \/ wanted[k].request_type = NULL})
             /\ basic.total_server_requests =
                  Cardinality({k \in DOMAIN wanted :
                                 wanted[k].request_type = "api"})
             /\ (\A k \in DOMAIN wanted :
                   wanted[k].request_type \in {NULL, "static", "api"})
                => basic.total_requests =
                     basic.total_website_requests + basic.total_server_requests
     /\ Reports("getTrafficStats") =>
          /\ statsPc # <<>>
          /\ res'.val[1].total_requests = statsPc[1].basicStats.total_requests
          /\ res'.val[1].unique_visitors = statsPc[1].basicStats.unique_visitors
          /\ res'.val[1].total_website_requests =
               statsPc[1].basicStats.total_website_requests
          /\ res'.val[1].total_server_requests =
               statsPc[1].basicStats.total_server_requests]_vars

\* C12 witness: three matching events, two from one ip address and one
\* without, of request type "static", "api" and none: 3 requests, 1 visitor,
\* 2 website requests, 1 server request.
C12_Witness ==
  /\ res.op = "getTrafficStats"
  /\ res.err = ErrNone
  /\ res.val[1].total_requests = 3
  /\ res.val[1].unique_visitors = 1
  /\ res.val[1].total_website_requests = 2
  /\ res.val[1].total_server_requests = 1

\* The label under which the specification reports a stored referrer.
LabelOfReferrer(v) == IF v = NULL THEN "(direct)" ELSE v

\* C13: top_referrers has at most 10 entries, and as many as there are
\* referrers when these are fewer; its counts do not increase from one entry
\* to the next; every entry is a referrer of the matching events with the
\* number of its events, the omitted referrer reported as "(direct)" and no
\* entry being null; and a referrer that is left out has no more events than
\* any entry.
C13_TopReferrers ==
  [][Reports("getTrafficStats") =>
       LET wanted == Wanted(traffic, res'.arg[1])
           stored == {wanted[k].referrer : k \in DOMAIN wanted}
           cnt(v) == Cardinality({k \in DOMAIN wanted : wanted[k].referrer = v})
           top == res'.val[1].top_referrers
           included == {top[i].referrer : i \in DOMAIN top}
       IN /\ Len(top) <= 10
          /\ Len(top) = Cardinality(included)
          /\ Cardinality(stored) <= 10 => Len(top) = Cardinality(stored)
          /\ Cardinality(stored) > 10 => Len(top) = 10
          /\ \A i, j \in DOMAIN top : i < j => top[i].count >= top[j].count
          /\ \A i \in DOMAIN top :
               /\ top[i].referrer # NULL
               /\ \E v \in stored : /\ LabelOfReferrer(v) = top[i].referrer
                                    /\ cnt(v) = top[i].count
          /\ \A v \in stored :
               LabelOfReferrer(v) \notin included =>
                 \A i \in DOMAIN top : cnt(v) <= top[i].count]_vars

\* C13 witness: twelve referrers, the most frequent of them the omitted one:
\* ten entries, "(direct)" first, and two referrers left out.
C13_Witness ==
  /\ res.op = "getTrafficStats"
  /\ res.err = ErrNone
  /\ Len(res.val[1].top_referrers) = 10
  /\ res.val[1].top_referrers[1].referrer = "(direct)"
  /\ res.val[1].top_referrers[1].count = 12
  /\ res.val[1].top_referrers[10].count = 3

\* The operation op ends in this step on an open store that has its table.
EndsOnOpenStore(op) ==
  res' # res /\ res'.op = op /\ db = "open" /\ hasTable

ZeroStats ==
  [total_requests |-> 0, unique_visitors |-> 0, total_website_requests |-> 0,
   total_server_requests |-> 0, top_referrers |-> <<>>]

\* No stored event of the site was ingested on a day of the range (with the
\* path of the report, when it names one).
NothingIngested(q, path) ==
  \A k \in DOMAIN traffic :
    ~(/\ traffic[k].site_id = q.siteId
      /\ DayOfMs(q.startTime) <= DayOfSeconds(traffic[k].created_at)
      /\ DayOfSeconds(traffic[k].created_at) <= DayOfMs(q.endTime)
      /\ path # "" => traffic[k].path = path)

ZeroSpine(q, rows) ==
  /\ Len(rows) = DayOfMs(q.endTime) - DayOfMs(q.startTime) + 1
  /\ \A i \in DOMAIN rows :
       /\ rows[i].date = <<1970, 1, DayOfMs(q.startTime) + i>>
       /\ rows[i].count = 0

\* C14: on an open store, empty or not, in which no event matches, no report
\* fails: getTrafficStats returns four zeros and an empty top_referrers, the
\* three breakdowns return the empty list, and getDailyViews and
\* getDailyViewsByPath return one row for every day of the range, each with
\* count 0.
C14_EmptyReports ==
  [][/\ (EndsOnOpenStore("getTrafficStats")
           /\ Wanted(traffic, res'.arg[1]) = <<>>)
        => (res'.err = ErrNone /\ res'.val = <<ZeroStats>>)
     /\ \A op \in BreakdownOps :
          (EndsOnOpenStore(op) /\ Wanted(traffic, res'.arg[1]) = <<>>)
          => (res'.err = ErrNone /\ res'.val = <<>>)
     /\ (EndsOnOpenStore("getDailyViews") /\ NothingIngested(res'.arg[1], ""))
        => (res'.err = ErrNone /\ ZeroSpine(res'.arg[1], res'.val))
     /\ (EndsOnOpenStore("getDailyViewsByPath")
           /\ NothingIngested(res'.arg[1].q, res'.arg[1].path))
        => (res'.err = ErrNone /\ ZeroSpine(res'.arg[1].q, res'.val))]_vars

\* C14 witness: the daily views by path of three days, all zero, for a path no
\* event has, on a store that holds two events of the site.
C14_Witness ==
  /\ res.op = "getDailyViewsByPath"
  /\ res.err = ErrNone
  /\ res.arg[1].path = "/x"
  /\ res.arg[1].q.siteId = "s1"
  /\ Len(res.val) = 3
  /\ \A i \in DOMAIN res.val : res.val[i].count = 0
  /\ Len(traffic) = 2
  /\ \A k \in DOMAIN traffic : traffic[k].site_id = "s1"

\* The stored events of a site ingested on a day of the epoch, split by
\* whether their timestamp lies in the window of the query.
IngestedInWindow(q, day) ==
  {k \in DOMAIN traffic :
     /\ traffic[k].site_id = q.siteId
     /\ DayOfSeconds(traffic[k].created_at) = day
     /\ q.startTime <= traffic[k].timestamp
     /\ traffic[k].timestamp <= q.endTime}

IngestedOutOfWindow(q, day) ==
  {k \in DOMAIN traffic :
     /\ traffic[k].site_id = q.siteId
     /\ DayOfSeconds(traffic[k].created_at) = day
     /\ (traffic[k].timestamp < q.startTime \/ q.endTime < traffic[k].timestamp)}

\* C15: the count getDailyViews gives for a day (of January 1970 here) is the
\* number of the site's events ingested on that day: those whose timestamp is
\* in [startTime, endTime] and those whose timestamp is not.
C15_CountsByIngestionDay ==
  [][Reports("getDailyViews") =>
       LET q == res'.arg[1]
           rows == res'.val
       IN \A i \in DOMAIN rows :
            LET day == rows[i].date[3] - 1
            IN /\ rows[i].date[1] = 1970 /\ rows[i].date[2] = 1
               /\ rows[i].count = Cardinality(IngestedInWindow(q, day))
                                    + Cardinality(IngestedOutOfWindow(q, day))]_vars

\* C15 witness: a day with count 2 although no event of the site has its
\* timestamp in the window of the query.
C15_Witness ==
  /\ res.op = "getDailyViews"
  /\ res.err = ErrNone
  /\ \E i \in DOMAIN res.val : res.val[i].count = 2
  /\ Len(traffic) = 2
  /\ Wanted(traffic, res.arg[1]) = <<>>

\* The stored events of a site ingested on a day of the epoch, and those of
\* them with a given path.
IngestedOn(siteId, day) ==
  {k \in DOMAIN traffic :
     /\ traffic[k].site_id = siteId
     /\ DayOfSeconds(traffic[k].created_at) = day}

IngestedOnWithPath(siteId, day, path) ==
  {k \in IngestedOn(siteId, day) : traffic[k].path = path}

\* The rows are the date spine getDailyViews returns for the query.
SameSpine(q, rows) ==
  /\ Len(rows) = Max(DayOfMs(q.endTime) - DayOfMs(q.startTime), 0) + 1
  /\ \A i \in DOMAIN rows : rows[i].date = <<1970, 1, DayOfMs(q.startTime) + i>>

\* C16 as stated: for a path that is given, getDailyViewsByPath returns the
\* spine of getDailyViews, and the count of every day is the number of the
\* site's events of that day with that path.
C16_Original ==
  [][(Reports("getDailyViewsByPath") /\ res'.arg[1].path # NULL) =>
       LET q == res'.arg[1].q
           rows == res'.val
       IN /\ SameSpine(q, rows)
          /\ \A i \in DOMAIN rows :
               rows[i].count =
                 Cardinality(IngestedOnWithPath(q.siteId, rows[i].date[3] - 1,
                                                res'.arg[1].path))]_vars

\* C16 amended: getDailyViewsByPath returns the spine of getDailyViews; for a
\* path that is not empty the count of every day is the number of the site's
\* events of that day with that path; for a path that is omitted or is the
\* empty string it is the number of all the site's events of that day; in
\* both cases it is at most that number.
C16_DailyViewsByPath ==
  [][Reports("getDailyViewsByPath") =>
       LET q == res'.arg[1].q
           path == res'.arg[1].path
           rows == res'.val
       IN /\ SameSpine(q, rows)
          /\ \A i \in DOMAIN rows :
               LET day == rows[i].date[3] - 1
               IN /\ rows[i].count =
                       IF path = NULL \/ path = ""
                       THEN Cardinality(IngestedOn(q.siteId, day))
                       ELSE Cardinality(IngestedOnWithPath(q.siteId, day, path))
                  /\ rows[i].count <= Cardinality(IngestedOn(q.siteId, day))]_vars

\* C16 witness: the daily views by the path "/a" count 1 on a day on which two
\* events of the site were ingested.
C16_Witness ==
  /\ res.op = "getDailyViewsByPath"
  /\ res.err = ErrNone
  /\ res.arg[1].path = "/a"
  /\ \E i \in DOMAIN res.val :
       /\ res.val[i].count = 1
       /\ Cardinality(IngestedOn("s1", res.val[i].date[3] - 1)) = 2

\* What getLatestTraffic is to return from a pool of stored events: the
\* min(100, n) of them with the largest ids, in strictly descending id order.
IsLatestOf(rows, pool) ==
  /\ Len(rows) = (IF Cardinality(pool) < 100 THEN Cardinality(pool) ELSE 100)
  /\ \A i, j \in DOMAIN rows : i < j => rows[i].id > rows[j].id
  /\ \A i \in DOMAIN rows : \E k \in pool : traffic[k] = rows[i]
  /\ \A k \in pool :
       (\A i \in DOMAIN rows : rows[i] # traffic[k]) =>
         \A i \in DOMAIN rows : traffic[k].id < rows[i].id

\* C17 as stated: the pool is the whole table when no siteId is passed, and
\* the events of the siteId that is passed otherwise.
C17_Original ==
  [][Reports("getLatestTraffic") =>
       LET siteId == res'.arg[1]
       IN IsLatestOf(res'.val,
                     {k \in DOMAIN traffic :
                        siteId # NULL => traffic[k].site_id = siteId})]_vars

\* C17 amended: the pool is the events of the siteId that is passed when this
\* is not the empty string, and the whole table when the siteId is omitted or
\* is the empty string.
C17_LatestTraffic ==
  [][Reports("getLatestTraffic") =>
       LET siteId == res'.arg[1]
       IN IsLatestOf(res'.val,
                     IF siteId = NULL \/ siteId = ""
                     THEN DOMAIN traffic
                     ELSE {k \in DOMAIN traffic :
                             traffic[k].site_id = siteId})]_vars

\* C17 witness: 100 events of site s1 returned from a table that holds more
\* than 100 of them.
C17_Witness ==
  /\ res.op = "getLatestTraffic"
  /\ res.err = ErrNone
  /\ res.arg = <<"s1">>
  /\ Len(res.val) = 100
  /\ Cardinality({k \in DOMAIN traffic : traffic[k].site_id = "s1"}) > 100

\* The operations that only read the event log.
ReadOps ==
  {"queryTrafficStream", "queryTraffic", "getDailyViews",
   "getDailyViewsByPath", "getTrafficStats", "getReferrerBreakdown",
   "getPathsBreakdown", "getCountryBreakdown", "getLatestTraffic"}

\* A step of a read operation: it returns or throws, a generator starts or
\* fetches a batch, or getTrafficStats runs one of its two statements.
ReadStep ==
  \/ res' # res /\ res'.op \in ReadOps
  \/ streams' # streams
  \/ statsPc' # statsPc

\* A step in which a recordTraffic resolves.
AppendResolves ==
  /\ \E w \in Writers : writers[w].pc = "prepared" /\ writers'[w].pc = "idle"
  /\ res'.op = "recordTraffic"
  /\ res'.err = ErrNone

\* C18: the event log is append-only.  Every step of a read operation (the
\* stream, the eager query, the five reports, getLatestTraffic) leaves the
\* stored events as they are; a recordTraffic that resolves adds exactly one
\* event, after the events stored before, and leaves the id and every
\* attribute of those unchanged.
C18_AppendOnly ==
  [][/\ ReadStep => traffic' = traffic
     /\ AppendResolves =>
          /\ Len(traffic') = Len(traffic) + 1
          /\ \A i \in DOMAIN traffic : traffic'[i] = traffic[i]
          /\ \A i \in DOMAIN traffic : traffic'[Len(traffic')].id # traffic[i].id]_vars

\* C18 witness: the eager query has returned an event of a log of two events,
\* after both appends and with the log as the appends left it.
C18_Witness ==
  /\ res.op = "queryTraffic"
  /\ res.err = ErrNone
  /\ Len(res.val) = 1
  /\ Len(traffic) = 2
  /\ traffic[1].id = 1
  /\ traffic[2].id = 2
  /\ res.val[1] \in {traffic[1], traffic[2]}

\* C19 as stated: over any sequence of append, close, initialize, backup and
\* restoreDatabase operations, no id has been given to two different events.
C19_Original ==
  \A id \in DOMAIN assigned : assigned[id] = 1

\* On the file of index.ts, the id of the event stored last has been given to
\* two events: once before a restoreDatabase put back a file that was backed
\* up earlier, and once after it.
C19_ReusedAfterRestore ==
  /\ dbPath = FilePath
  /\ db = "open"
  /\ res.op = "recordTraffic"
  /\ res.err = ErrNone
  /\ Len(traffic) = 2
  /\ traffic[2].id = 2
  /\ assigned[1] = 1
  /\ assigned[2] = 2

\* A step in which the running generator s fetches a batch on a handle that
\* cannot serve it: the handle has been closed, or its database has no
\* traffic table yet.
FetchFails(s) ==
  /\ streams[s].pc = "active"
  /\ streams' # streams
  /\ db # "open" \/ ~hasTable

\* C20: when a batch fetch of queryTrafficStream fails, the consumer gets the
\* error, the generator is finished (no further event, no second fetch), the
\* consumer of the stream has received the events yielded before the failure
\* and no other, and queryTraffic rejects without a list.
C20_FetchFailurePropagates ==
  [][\A s \in Streams :
       FetchFails(s) =>
         /\ res'.op = (IF streams[s].eager THEN "queryTraffic"
                       ELSE "queryTrafficStream")
         /\ res'.err \in {HandleClosed, NoSuchTable}
         /\ streams'[s].pc = "idle"
         /\ streams[s].eager => res'.val = <<>>
         /\ ~streams[s].eager => res'.val = streams[s].yielded]_vars

\* C20 witness: queryTraffic has rejected, with no list, after its stream had
\* yielded an event and the handle was closed before the next fetch.
C20_Witness ==
  /\ res.op = "queryTraffic"
  /\ res.err = HandleClosed
  /\ res.val = <<>>
  /\ Len(res.arg[1].yielded) = 1
  /\ streams[1].pc = "idle"

\* Two generators are invoked with the same parameters.
SameParameters(a, b) ==
  /\ a.siteId = b.siteId
  /\ a.startTime = b.startTime
  /\ a.endTime = b.endTime
  /\ a.batchSize = b.batchSize

IsPrefix(a, b) ==
  /\ Len(a) <= Len(b)
  /\ \A i \in DOMAIN a : a[i] = b[i]

\* C21: every invocation of queryTrafficStream has a cursor of its own that
\* starts at 0, with nothing yielded.  A step of one generator (it starts, it
\* fetches, it ends or its consumer abandons it) leaves every other generator
\* as it is.  On a store that has not changed since they started, of two
\* running generators with the same parameters the one whose cursor is not
\* ahead has yielded a prefix of what the other has yielded, and a generator
\* that runs to its end has yielded all the wanted rows of the store from the
\* first on, whatever other generators did meanwhile.
C21_OwnCursor ==
  [][\A s \in Consumers :
       /\ (streams[s].pc = "idle" /\ streams'[s].pc = "active") =>
            /\ streams'[s].lastId = 0
            /\ streams'[s].yielded = <<>>
       /\ streams'[s] # streams[s] =>
            \A t \in Consumers \ {s} : streams'[t] = streams[t]
       /\ \A t \in Consumers \ {s} :
            (/\ streams'[s].pc = "active"
             /\ streams'[t].pc = "active"
             /\ SameParameters(streams'[s], streams'[t])
             /\ streams'[s].atStart = traffic'
             /\ streams'[t].atStart = traffic'
             /\ streams'[s].lastId <= streams'[t].lastId) =>
              IsPrefix(streams'[s].yielded, streams'[t].yielded)
       /\ (/\ streams[s].pc = "active"
           /\ streams'[s].pc = "idle"
           /\ res'.op \in {"queryTraffic", "queryTrafficStream"}
           /\ res'.err = ErrNone
           /\ res'.arg = <<streams[s]>>
           /\ streams[s].atStart = traffic) =>
            res'.val = Wanted(traffic, streams[s])]_vars

\* C21 witness: the second consumer's generator has run to its end and yielded
\* both wanted rows of the store, from the first on, while the first
\* consumer's generator, invoked with the same parameters, has its cursor on
\* the first of them.
C21_Witness ==
  /\ res.op = "queryTrafficStream"
  /\ res.err = ErrNone
  /\ Len(res.val) = 2
  /\ res.val[1].id = 1
  /\ streams[2].pc = "idle"
  /\ streams[1].pc = "active"
  /\ SameParameters(streams[1], res.arg[1])
  /\ streams[1].lastId = 1
  /\ streams[1].atStart = traffic
  /\ res.arg[1].atStart = traffic

\* The optional attributes of a stored event.
OptionalColumns ==
  {"path", "user_agent", "ip_address", "country", "city", "referrer",
   "request_type"}

\* The values the callers of recordTraffic have for the optional attributes
\* of their events.
CallerValues ==
  {"/", "/blog", "/pricing", "Mozilla/5.0 (Macintosh)", "Mozilla/5.0 (iPhone)",
   "curl/8", "10.0.0.1", "10.0.0.2", "US", "GB", "DE", "San Francisco",
   "London", "Berlin", "static", "https://example.com", "https://google.com",
   "https://twitter.com", "https://facebook.com", "https://github.com",
   "https://hn.algolia.com", "https://linkedin.com"}

\* C22 as stated: for every caller of recordTraffic, the test-data generator
\* included, every optional attribute of every stored event is a value its
\* caller had for it, or null when the caller had none; it is never the empty
\* string, nor any other text that stands for no value.
C22_Original ==
  \A i \in DOMAIN traffic : \A column \in OptionalColumns :
    /\ traffic[i][column] # ""
    /\ traffic[i][column] \in CallerValues \cup {NULL}

\* An event of generateTestData for direct traffic is stored with the text
\* "null" as its referrer, next to an event of POST /analytics whose absent
\* referrer is stored as null.
C22_TextNullStored ==
  /\ Len(traffic) = 2
  /\ traffic[1].site_id = "s1"
  /\ traffic[1].referrer = NULL
  /\ traffic[2].site_id = SITE_ID
  /\ traffic[2].referrer = "null"
  /\ traffic[2].request_type = NULL

\* The wanted rows of the table that lie after the cursor of generator st.
WantedAfterCursor(st) ==
  SelectSeq(Wanted(traffic, st), LAMBDA r : r.id > st.lastId)

CeilDiv(n, d) == (n + d - 1) \div d

\* C23: a fully consumed queryTrafficStream terminates.  A fetch on a usable
\* handle that finds no wanted row after the cursor ends the generator without
\* error; a fetch that finds one (batchSize >= 1) leaves it running with a
\* larger lastId.  A generator with batchSize >= 1 that ends on a table whose
\* wanted rows are those it started with has made ceil(N / batchSize)
\* non-empty fetches before its empty one, for N wanted rows.  And every
\* generator that runs comes to its end.
C23_StreamTerminates ==
  /\ [][\A s \in Streams :
          (/\ streams[s].pc = "active"
           /\ streams'[s] # streams[s]
           /\ db = "open"
           /\ hasTable) =>
            LET st == streams[s]
            IN /\ WantedAfterCursor(st) = <<>> =>
                    /\ streams'[s].pc = "idle"
                    /\ res'.op \in {"queryTraffic", "queryTrafficStream"}
                    /\ res'.err = ErrNone
                    /\ res'.val = st.yielded
               /\ (WantedAfterCursor(st) # <<>> /\ st.batchSize >= 1) =>
                    /\ streams'[s].pc = "active"
                    /\ streams'[s].lastId > st.lastId
                    /\ streams'[s].fetches = st.fetches + 1
               /\ (/\ streams'[s].pc = "idle"
                   /\ st.batchSize >= 1
                   /\ Wanted(traffic, st) = Wanted(st.atStart, st)) =>
                    st.fetches = CeilDiv(Len(Wanted(traffic, st)),
                                         st.batchSize)]_vars
  /\ \A s \in Streams :
       (streams[s].pc = "active") ~> (streams[s].pc = "idle")

\* C23 witness: a generator with batchSize 2 has ended on a table that held
\* its three wanted rows from the start, after two non-empty fetches.
C23_Witness ==
  /\ StreamDone
  /\ res.arg[1].batchSize = 2
  /\ Len(res.val) = 3
  /\ res.arg[1].fetches = 2
  /\ Wanted(res.arg[1].atStart, res.arg[1]) = res.val

\* C24 as stated: in every result of getTrafficStats, also one whose two
\* statements ran on either side of a recordTraffic, the counts of
\* top_referrers add up to total_requests at most.
C24_Original ==
  (res.op = "getTrafficStats" /\ res.err = ErrNone) =>
    SumOfCounts(res.val[1].top_referrers) <= res.val[1].total_requests

\* A result of getTrafficStats with total_requests 0 and a referrer counted
\* once: the event was stored between its two statements.
C24_TornResult ==
  /\ res.op = "getTrafficStats"
  /\ res.err = ErrNone
  /\ res.val[1].total_requests = 0
  /\ Len(res.val[1].top_referrers) = 1
  /\ res.val[1].top_referrers[1].count = 1
  /\ Len(Matching(traffic, res.arg[1].siteId, res.arg[1].startTime,
                  res.arg[1].endTime)) = 1

\* C25 as stated: in every breakdown and in top_referrers no two rows have
\* the same label, whatever the stored events hold.
C25_Original ==
  /\ (res.op \in BreakdownOps /\ res.err = ErrNone) =>
       \A i, j \in DOMAIN res.val :
         res.val[i].label = res.val[j].label => i = j
  /\ (res.op = "getTrafficStats" /\ res.err = ErrNone) =>
       \A i, j \in DOMAIN res.val[1].top_referrers :
         res.val[1].top_referrers[i].referrer =
           res.val[1].top_referrers[j].referrer => i = j

\* A referrer breakdown with two rows labelled "(direct)": one for the event
\* whose referrer is null, one for the event whose referrer is that text.
C25_LabelTwice ==
  /\ res.op = "getReferrerBreakdown"
  /\ res.err = ErrNone
  /\ Len(res.val) = 2
  /\ res.val[1].label = "(direct)"
  /\ res.val[2].label = "(direct)"
  /\ \E i, j \in DOMAIN traffic :
       traffic[i].referrer = NULL /\ traffic[j].referrer = "(direct)"

\* A step in which a recordTraffic or a report that is called after the
\* restoreDatabase returned comes to its outcome at once: the restore is the
\* operation that completed last, and the step is no later part of a call
\* that began before.
FollowsRestore ==
  /\ res.op = "restoreDatabase"
  /\ restorePc = "idle"
  /\ initPc = "idle"
  /\ res' # res
  /\ res'.op \in StoreOps
  /\ writers' = writers
  /\ streams' = streams
  /\ statsPc' = statsPc

\* C26 as stated: after restoreDatabase has returned, with or without an
\* error, a following recordTraffic or report succeeds or fails with
\* "Database not initialized"; it never runs on a closed connection.
C26_Original ==
  [][FollowsRestore =>
       /\ res'.err \in {ErrNone, NotInitialized}
       /\ res'.handle # "closed"]_vars

\* restoreDatabase has thrown after it closed the store, and the report that
\* followed ran on the closed connection and failed with the driver's error.
C26_ClosedAfterRestore ==
  /\ res.op = "getLatestTraffic"
  /\ res.handle = "closed"
  /\ res.err = HandleClosed
  /\ db = "closed"
  /\ restorePc = "idle"
  /\ initPc = "idle"
  /\ InFlight = {}

====
